---- MODULE Spec2Model ----
(***************************************************************************)
(* Model of the JARVIS command-understanding pipeline (ai_core.py) and of  *)
(* its caller JarvisCore.process_command (jarvis_core.py).                 *)
(*                                                                         *)
(* Commands and service replies are character strings; the regular         *)
(* expressions of the pattern tables are represented as syntax trees and   *)
(* matched with the backtracking (leftmost, priority-ordered) semantics of *)
(* Python's re module.                                                     *)
(***************************************************************************)
EXTENDS Integers, Sequences, FiniteSets, TLC

(***************************************************************************)
(* Python values                                                           *)
(***************************************************************************)
PyNone == [t |-> "None"]
PyStr(s) == [t |-> "str", s |-> s]
PyInt(n) == [t |-> "int", n |-> n]
PyDict(d) == [t |-> "dict", d |-> d]
PyBool(b) == [t |-> "bool", b |-> b]

EmptyDict == [k \in {} |-> PyNone]

\* bool(v): None, "", 0 and {} are falsy, everything else is truthy
Truthy(v) ==
  CASE v.t = "None" -> FALSE
    [] v.t = "str" -> v.s # ""
    [] v.t = "int" -> v.n # 0
    [] v.t = "dict" -> DOMAIN v.d # {}
    [] v.t = "bool" -> v.b

(***************************************************************************)
(* str methods                                                             *)
(***************************************************************************)
Chr(s, i) == SubSeq(s, i, i)

Whitespace == {" ", "\t", "\n", "\r", "\f"}

Digits == {"0", "1", "2", "3", "4", "5", "6", "7", "8", "9"}

LowerLetters ==
  {"a", "b", "c", "d", "e", "f", "g", "h", "i", "j", "k", "l", "m",
   "n", "o", "p", "q", "r", "s", "t", "u", "v", "w", "x", "y", "z"}

UpperToLower ==
  [c \in {"A", "B", "C", "D", "E", "F", "G", "H", "I", "J", "K", "L", "M",
          "N", "O", "P", "Q", "R", "S", "T", "U", "V", "W", "X", "Y", "Z"} |->
     CASE c = "A" -> "a" [] c = "B" -> "b" [] c = "C" -> "c" [] c = "D" -> "d"
       [] c = "E" -> "e" [] c = "F" -> "f" [] c = "G" -> "g" [] c = "H" -> "h"
       [] c = "I" -> "i" [] c = "J" -> "j" [] c = "K" -> "k" [] c = "L" -> "l"
       [] c = "M" -> "m" [] c = "N" -> "n" [] c = "O" -> "o" [] c = "P" -> "p"
       [] c = "Q" -> "q" [] c = "R" -> "r" [] c = "S" -> "s" [] c = "T" -> "t"
       [] c = "U" -> "u" [] c = "V" -> "v" [] c = "W" -> "w" [] c = "X" -> "x"
       [] c = "Y" -> "y" [] c = "Z" -> "z"]

Letters == LowerLetters \cup DOMAIN UpperToLower

Min(S) == CHOOSE x \in S : \A y \in S : x <= y
Max(S) == CHOOSE x \in S : \A y \in S : y <= x

RECURSIVE Join(_, _, _)
\* ''.join(pieces[lo..hi])
Join(pieces, lo, hi) ==
  IF lo > hi THEN ""
  ELSE IF lo = hi THEN pieces[lo]
  ELSE LET mid == (lo + hi) \div 2
       IN  Join(pieces, lo, mid) \o Join(pieces, mid + 1, hi)

\* str.lower()
Lower(s) ==
  Join([i \in 1..Len(s) |->
          IF Chr(s, i) \in DOMAIN UpperToLower THEN UpperToLower[Chr(s, i)]
          ELSE Chr(s, i)],
       1, Len(s))

\* the positions of s that hold no whitespace
Inked(s) == {i \in 1..Len(s) : Chr(s, i) \notin Whitespace}

LStrip(s) == IF Inked(s) = {} THEN "" ELSE SubSeq(s, Min(Inked(s)), Len(s))

RStrip(s) == IF Inked(s) = {} THEN "" ELSE SubSeq(s, 1, Max(Inked(s)))

\* str.strip()
Strip(s) == RStrip(LStrip(s))

\* does the literal lit occur in s at position i
StartsAt(lit, s, i) ==
  /\ i + Len(lit) - 1 <= Len(s)
  /\ SubSeq(s, i, i + Len(lit) - 1) = lit

\* the Python expression  lit in s
Contains(lit, s) == \E i \in 1..(Len(s) + 1) : StartsAt(lit, s, i)

\* ' '.join(s.split()): the whitespace goes, and one space comes before
\* each word but the first
SplitJoin(s) ==
  Join([i \in 1..Len(s) |->
          IF Chr(s, i) \in Whitespace THEN ""
          ELSE (IF i > Min(Inked(s)) /\ Chr(s, i - 1) \in Whitespace
                THEN " " ELSE "") \o Chr(s, i)],
       1, Len(s))

DigitValue(c) ==
  CASE c = "0" -> 0 [] c = "1" -> 1 [] c = "2" -> 2 [] c = "3" -> 3
    [] c = "4" -> 4 [] c = "5" -> 5 [] c = "6" -> 6 [] c = "7" -> 7
    [] c = "8" -> 8 [] c = "9" -> 9

IsDigits(s) == s # "" /\ \A i \in 1..Len(s) : Chr(s, i) \in Digits

RECURSIVE ParseInt(_)
\* int(s) for a string of decimal digits
ParseInt(s) ==
  IF s = "" THEN 0
  ELSE 10 * ParseInt(SubSeq(s, 1, Len(s) - 1)) + DigitValue(Chr(s, Len(s)))

(***************************************************************************)
(* Regular expressions (re module)                                         *)
(***************************************************************************)
Lit(s) == [t |-> "lit", s |-> s]
Cls(cs) == [t |-> "cls", cs |-> cs, neg |-> FALSE]
NotCls(cs) == [t |-> "cls", cs |-> cs, neg |-> TRUE]
Rep(r, min, greedy) == [t |-> "rep", r |-> r, min |-> min, greedy |-> greedy]
Opt(r) == [t |-> "opt", r |-> r]
Cat(rs) == [t |-> "cat", rs |-> rs]
Alt(rs) == [t |-> "alt", rs |-> rs]
Grp(n, r) == [t |-> "grp", n |-> n, r |-> r]

\* .  without re.DOTALL, and with it
Dot == NotCls({"\n"})
DotAll == NotCls({})
\* .*
DotStar == Rep(Dot, 0, TRUE)
\* \s+
Spaces == Rep(Cls(Whitespace), 1, TRUE)
\* ["\']? and [^"\']+
Quote == Opt(Cls({"\"", "'"}))
Unquoted == Rep(NotCls({"\"", "'"}), 1, TRUE)
\* (?:a|b|...)
OneOf(ws) == Alt([k \in 1..Len(ws) |-> Lit(ws[k])])

InCls(r, c) == IF r.neg THEN c \notin r.cs ELSE c \in r.cs

\* length of the longest run of characters of class r in s from position i
Run(r, s, i) ==
  IF i > Len(s) \/ ~InCls(r, Chr(s, i)) THEN 0
  ELSE Min({j \in i..(Len(s) + 1) : j > Len(s) \/ ~InCls(r, Chr(s, j))}) - i

NoGroups == <<PyNone, PyNone>>

RECURSIVE FlatMatch(_, _, _, _)
RECURSIVE Match(_, _, _, _)
RECURSIVE MatchAlt(_, _, _, _, _)

\* All the ways regex r matches s from position i, in the order the
\* backtracking matcher tries them; e is the position after the match and
\* g the captured groups.
Match(r, s, i, g) ==
  CASE r.t = "lit" ->
         IF StartsAt(r.s, s, i) THEN <<[e |-> i + Len(r.s), g |-> g]>>
         ELSE <<>>
    [] r.t = "cls" ->
         IF i <= Len(s) /\ InCls(r, Chr(s, i)) THEN <<[e |-> i + 1, g |-> g]>>
         ELSE <<>>
    [] r.t = "rep" ->
         LET n == Run(r.r, s, i)
         IN  IF n < r.min THEN <<>>
             ELSE [k \in 1..(n - r.min + 1) |->
                     [e |-> IF r.greedy THEN i + n - (k - 1)
                            ELSE i + r.min + (k - 1),
                      g |-> g]]
    [] r.t = "opt" -> Match(r.r, s, i, g) \o <<[e |-> i, g |-> g]>>
    [] r.t = "cat" -> FlatMatch(r.rs, 1, s, <<[e |-> i, g |-> g]>>)
    [] r.t = "alt" -> MatchAlt(r.rs, 1, s, i, g)
    [] r.t = "grp" ->
         LET ms == Match(r.r, s, i, g)
         IN  [k \in 1..Len(ms) |->
                [e |-> ms[k].e,
                 g |-> [ms[k].g EXCEPT ![r.n] = PyStr(SubSeq(s, i, ms[k].e - 1))]]]

MatchAlt(rs, k, s, i, g) ==
  IF k > Len(rs) THEN <<>>
  ELSE Match(rs[k], s, i, g) \o MatchAlt(rs, k + 1, s, i, g)

RECURSIVE MatchEach(_, _, _, _, _)
\* the matches of r from the end of each of ms[lo..hi], in that order
MatchEach(r, s, ms, lo, hi) ==
  IF lo > hi THEN <<>>
  ELSE IF lo = hi THEN Match(r, s, ms[lo].e, ms[lo].g)
  ELSE LET mid == (lo + hi) \div 2
       IN  MatchEach(r, s, ms, lo, mid) \o MatchEach(r, s, ms, mid + 1, hi)

FlatMatch(rs, k, s, ms) ==
  IF k > Len(rs) \/ ms = <<>> THEN ms
  ELSE FlatMatch(rs, k + 1, s, MatchEach(rs[k], s, ms, 1, Len(ms)))

NoMatch == [found |-> FALSE, b |-> 0, e |-> 0, g |-> NoGroups]

RECURSIVE SearchFrom(_, _, _, _)
\* the match that starts leftmost among the positions lo..hi of s
SearchFrom(r, s, lo, hi) ==
  IF lo > hi THEN NoMatch
  ELSE IF lo = hi
  THEN LET ms == Match(r, s, lo, NoGroups)
       IN  IF ms # <<>>
           THEN [found |-> TRUE, b |-> lo, e |-> ms[1].e, g |-> ms[1].g]
           ELSE NoMatch
  ELSE LET mid == (lo + hi) \div 2
           left == SearchFrom(r, s, lo, mid)
       IN  IF left.found THEN left ELSE SearchFrom(r, s, mid + 1, hi)

\* re.search(r, s)
Search(r, s) == SearchFrom(r, s, 1, Len(s) + 1)

RECURSIVE SubFrom(_, _, _)
\* s from position i on, without the leftmost non-overlapping matches of r
SubFrom(r, s, i) ==
  LET m == SearchFrom(r, s, i, Len(s))
  IN  IF ~m.found THEN SubSeq(s, i, Len(s))
      ELSE SubSeq(s, i, m.b - 1) \o SubFrom(r, s, m.e)

\* re.sub(r, '', s) for a pattern that matches no empty string
SubEmpty(r, s) == SubFrom(r, s, 1)

(***************************************************************************)
(* IntentClassifier                                                        *)
(***************************************************************************)
FileWords == <<"file", "document", "doc", "txt", "pdf">>
AppWords == <<"application", "app", "program">>
PlaceWords == <<"in", "for", "at">>

INTENT_PATTERNS == <<
  [intent |-> "file_creation", patterns |-> <<
     Cat(<<Lit("create"), DotStar, OneOf(FileWords)>>),
     Cat(<<Lit("make"), DotStar, OneOf(FileWords)>>),
     Cat(<<Lit("new"), DotStar, OneOf(FileWords)>>),
     Cat(<<Lit("generate"), DotStar, OneOf(FileWords)>>) >>],
  [intent |-> "file_management", patterns |-> <<
     Cat(<<Lit("list"), DotStar, Lit("file"), Opt(Lit("s"))>>),
     Cat(<<Lit("show"), DotStar, Lit("file"), Opt(Lit("s"))>>),
     Cat(<<Lit("open"), DotStar, OneOf(<<"file", "folder", "directory">>)>>),
     Cat(<<Lit("delete"), DotStar, OneOf(<<"file", "folder">>)>>),
     Cat(<<Lit("copy"), DotStar, OneOf(<<"file", "folder">>)>>),
     Cat(<<Lit("move"), DotStar, OneOf(<<"file", "folder">>)>>),
     Cat(<<Lit("read"), DotStar, Lit("file")>>),
     Cat(<<Lit("find"), DotStar, Lit("file")>>) >>],
  [intent |-> "system_control", patterns |-> <<
     Cat(<<Lit("open"), DotStar, OneOf(AppWords)>>),
     Cat(<<Lit("start"), DotStar, OneOf(AppWords)>>),
     Cat(<<Lit("launch"), DotStar, OneOf(AppWords)>>),
     Cat(<<Lit("run"), DotStar, OneOf(AppWords)>>),
     Cat(<<Lit("close"), DotStar, OneOf(AppWords)>>),
     Cat(<<Lit("kill"), DotStar, Lit("process")>>),
     Cat(<<Lit("restart"), DotStar, OneOf(<<"computer", "system">>)>>),
     Cat(<<Lit("shutdown"), DotStar, OneOf(<<"computer", "system">>)>>),
     Cat(<<Lit("take"), DotStar, Lit("screenshot")>>),
     Cat(<<Lit("get"), DotStar, OneOf(<<"processes", "services">>)>>),
     Cat(<<Lit("system"), DotStar, OneOf(<<"info", "status">>)>>) >>],
  [intent |-> "web_browse", patterns |-> <<
     Cat(<<Lit("search"), DotStar, OneOf(<<"for", "about">>)>>),
     Cat(<<Lit("google"), DotStar>>),
     Cat(<<Lit("browse"), DotStar>>),
     Cat(<<Lit("visit"), DotStar, OneOf(<<"website", "site">>)>>),
     Cat(<<Lit("open"), DotStar, OneOf(<<"website", "site", "url">>)>>),
     Cat(<<Lit("look"), DotStar, Lit("up")>>) >>],
  [intent |-> "powershell_task", patterns |-> <<
     Cat(<<Lit("powershell"), DotStar>>),
     Cat(<<Lit("run"), DotStar, OneOf(<<"command", "script">>)>>),
     Cat(<<Lit("execute"), DotStar, OneOf(<<"command", "script">>)>>),
     Cat(<<Lit("cmd"), DotStar>>),
     Cat(<<Lit("terminal"), DotStar>>) >>],
  [intent |-> "weather_inquiry", patterns |-> <<
     Cat(<<Lit("weather"), DotStar, OneOf(PlaceWords)>>),
     Cat(<<Lit("temperature"), DotStar, OneOf(PlaceWords)>>),
     Cat(<<Lit("forecast"), DotStar, OneOf(PlaceWords)>>),
     Cat(<<Lit("climate"), DotStar, OneOf(PlaceWords)>>) >>],
  [intent |-> "knowledge_inquiry", patterns |-> <<
     Cat(<<Lit("what"), DotStar, Lit("is")>>),
     Cat(<<Lit("tell"), DotStar, Lit("me"), DotStar, Lit("about")>>),
     Cat(<<Lit("explain"), DotStar>>),
     Cat(<<Lit("define"), DotStar>>),
     Cat(<<Lit("describe"), DotStar>>),
     Cat(<<Lit("how"), DotStar, OneOf(<<"does", "do", "to">>)>>),
     Cat(<<Lit("why"), DotStar, OneOf(<<"does", "do", "is">>)>>) >>],
  [intent |-> "memory_query", patterns |-> <<
     Cat(<<Lit("remember"), DotStar>>),
     Cat(<<Lit("recall"), DotStar>>),
     Cat(<<Lit("what"), DotStar, OneOf(<<"do you know", "did we discuss">>)>>),
     Cat(<<Lit("forget"), DotStar>>),
     Cat(<<Lit("clear"), DotStar, Lit("memory")>>) >>],
  [intent |-> "clipboard_management", patterns |-> <<
     Cat(<<Lit("copy"), DotStar, OneOf(<<"to clipboard", "clipboard">>)>>),
     Cat(<<Lit("paste"), DotStar, OneOf(<<"from clipboard", "clipboard">>)>>),
     Cat(<<Lit("read"), DotStar, Lit("clipboard")>>),
     Cat(<<Lit("clipboard"), DotStar>>) >>],
  [intent |-> "windows_automation", patterns |-> <<
     Cat(<<Lit("click"), DotStar, OneOf(<<"at", "on">>)>>),
     Cat(<<Lit("press"), DotStar, OneOf(<<"key", "keys">>)>>),
     Cat(<<Lit("type"), DotStar>>),
     Cat(<<Lit("send"), DotStar, Lit("keys")>>),
     Cat(<<Lit("window"), DotStar, Lit("list")>>),
     Cat(<<Lit("minimize"), DotStar, Lit("window")>>),
     Cat(<<Lit("maximize"), DotStar, Lit("window")>>) >>] >>

\* some pattern of the list is found in s
AnyPatternFound(patterns, s) ==
  \E k \in 1..Len(patterns) : Search(patterns[k], s).found

ClassifyFrom_LastMatch(s, n) ==
  LET hits == {m \in n..Len(INTENT_PATTERNS) :
                 AnyPatternFound(INTENT_PATTERNS[m].patterns, s)}
  IN  IF hits = {} THEN PyNone ELSE PyStr(INTENT_PATTERNS[Max(hits)].intent)

RECURSIVE ClassifyFrom(_, _)
ClassifyFrom(s, n) ==
  IF n > Len(INTENT_PATTERNS) THEN PyNone
  ELSE IF AnyPatternFound(INTENT_PATTERNS[n].patterns, s)
       THEN PyStr(INTENT_PATTERNS[n].intent)
       ELSE ClassifyFrom(s, n + 1)

classify_intent_NoLower(command) == ClassifyFrom(Strip(command), 1)

classify_intent(command) == ClassifyFrom(Strip(Lower(command)), 1)

(***************************************************************************)
(* ActionMapper                                                            *)
(***************************************************************************)
ACTION_MAPPING == <<
  [intent |-> "file_creation", actions |-> <<
     [pattern |-> OneOf(<<"word", "doc", "docx">>), action |-> "create_word"],
     [pattern |-> OneOf(<<"excel", "xlsx", "spreadsheet">>), action |-> "create_excel"],
     [pattern |-> Lit("pdf"), action |-> "create_pdf"],
     [pattern |-> OneOf(<<"text", "txt">>), action |-> "create_text"],
     [pattern |-> OneOf(<<"python", "py", "code">>), action |-> "create_code"],
     [pattern |-> Lit("json"), action |-> "create_json"] >>],
  [intent |-> "file_management", actions |-> <<
     [pattern |-> Cat(<<Lit("list"), DotStar, Lit("file"), Opt(Lit("s"))>>),
      action |-> "list_files"],
     [pattern |-> Cat(<<Lit("open"), DotStar, OneOf(<<"file", "folder">>)>>),
      action |-> "open_file"],
     [pattern |-> Cat(<<Lit("delete"), DotStar, OneOf(<<"file", "folder">>)>>),
      action |-> "delete_file"],
     [pattern |-> Cat(<<Lit("copy"), DotStar, OneOf(<<"file", "folder">>)>>),
      action |-> "copy_file"],
     [pattern |-> Cat(<<Lit("move"), DotStar, OneOf(<<"file", "folder">>)>>),
      action |-> "move_file"],
     [pattern |-> Cat(<<Lit("read"), DotStar, Lit("file")>>), action |-> "read_file"],
     [pattern |-> Cat(<<Lit("find"), DotStar, Lit("file")>>), action |-> "find_file"] >>],
  [intent |-> "system_control", actions |-> <<
     [pattern |-> Cat(<<Lit("open"), DotStar, OneOf(<<"application", "app">>)>>),
      action |-> "open_application"],
     [pattern |-> Cat(<<Lit("close"), DotStar, OneOf(<<"application", "app">>)>>),
      action |-> "close_application"],
     [pattern |-> Cat(<<Lit("take"), DotStar, Lit("screenshot")>>),
      action |-> "take_screenshot"],
     [pattern |-> Cat(<<Lit("get"), DotStar, Lit("processes")>>),
      action |-> "get_processes"],
     [pattern |-> Cat(<<Lit("get"), DotStar, Lit("services")>>),
      action |-> "get_services"],
     [pattern |-> Cat(<<Lit("system"), DotStar, Lit("info")>>),
      action |-> "get_system_info"],
     [pattern |-> Lit("restart"), action |-> "restart_system"],
     [pattern |-> Lit("shutdown"), action |-> "shutdown_system"] >>],
  [intent |-> "web_browse", actions |-> <<
     [pattern |-> Cat(<<Lit("search"), DotStar, Lit("for")>>), action |-> "web_search"],
     [pattern |-> Lit("google"), action |-> "web_search"],
     [pattern |-> Cat(<<Lit("visit"), DotStar, OneOf(<<"website", "site">>)>>),
      action |-> "visit_website"],
     [pattern |-> Cat(<<Lit("open"), DotStar, OneOf(<<"website", "site", "url">>)>>),
      action |-> "visit_website"] >>],
  [intent |-> "powershell_task", actions |-> <<
     [pattern |-> Cat(<<Lit("run"), DotStar, OneOf(<<"command", "script">>)>>),
      action |-> "run_powershell"],
     [pattern |-> Cat(<<Lit("execute"), DotStar, OneOf(<<"command", "script">>)>>),
      action |-> "run_powershell"],
     [pattern |-> Lit("powershell"), action |-> "run_powershell"] >>],
  [intent |-> "weather_inquiry", actions |-> <<
     [pattern |-> Lit("weather"), action |-> "get_weather"],
     [pattern |-> Lit("temperature"), action |-> "get_temperature"],
     [pattern |-> Lit("forecast"), action |-> "get_forecast"] >>],
  [intent |-> "memory_query", actions |-> <<
     [pattern |-> Lit("remember"), action |-> "store_memory"],
     [pattern |-> Lit("recall"), action |-> "recall_memory"],
     [pattern |-> Cat(<<Lit("what"), DotStar, Lit("know")>>), action |-> "recall_facts"],
     [pattern |-> Cat(<<Lit("what"), DotStar, Lit("discuss")>>),
      action |-> "recall_conversation"],
     [pattern |-> Lit("forget"), action |-> "clear_memory"] >>] >>

FirstAction_LastMatch(actions, s, k) ==
  LET hits == {m \in k..Len(actions) : Search(actions[m].pattern, s).found}
  IN  IF hits = {} THEN "default_action" ELSE actions[Max(hits)].action

RECURSIVE FirstAction(_, _, _)
FirstAction(actions, s, k) ==
  IF k > Len(actions) THEN "default_action"
  ELSE IF Search(actions[k].pattern, s).found THEN actions[k].action
       ELSE FirstAction(actions, s, k + 1)

\* intent is a Python value, the result a Python str
get_action(intent, command) ==
  LET tables == {n \in 1..Len(ACTION_MAPPING) :
                   intent = PyStr(ACTION_MAPPING[n].intent)}
  IN  IF tables = {} THEN "default_action"
      ELSE FirstAction(ACTION_MAPPING[CHOOSE n \in tables : TRUE].actions,
                       Lower(command), 1)


(***************************************************************************)
(* ParameterExtractor                                                      *)
(***************************************************************************)
NameChars == Rep(Cls(Letters \cup Whitespace), 1, TRUE)
Sentence == Rep(NotCls({".", "!", "?"}), 1, TRUE)
Number == Rep(Cls(Digits), 1, TRUE)

PARAMETER_PATTERNS == <<
  [name |-> "file_path", pattern |->
     Cat(<<OneOf(<<"file", "path">>), Spaces, Quote, Grp(1, Unquoted), Quote>>)],
  [name |-> "application_name", pattern |->
     Cat(<<OneOf(<<"open", "start", "launch">>), Spaces, Grp(1, NameChars)>>)],
  [name |-> "search_query", pattern |->
     Cat(<<OneOf(<<"search", "google">>), Spaces, Opt(Cat(<<Lit("for"), Spaces>>)),
           Quote, Grp(1, Unquoted), Quote>>)],
  [name |-> "city_name", pattern |->
     Cat(<<OneOf(<<"weather", "temperature", "forecast">>), Spaces,
           OneOf(PlaceWords), Spaces, Grp(1, NameChars)>>)],
  [name |-> "topic", pattern |->
     Cat(<<OneOf(<<"about", "explain", "tell me about">>), Spaces,
           Grp(1, Sentence)>>)],
  [name |-> "content", pattern |->
     Cat(<<OneOf(<<"create", "make", "write">>), Spaces, Rep(Dot, 0, FALSE),
           OneOf(<<"about", "with", "containing">>), Spaces, Grp(1, Sentence)>>)],
  [name |-> "coordinates", pattern |->
     Cat(<<OneOf(<<"click", "at">>), Spaces,
           Opt(Cat(<<Lit("coordinates"), Spaces>>)), Opt(Cls({"(", "["})),
           Grp(1, Number), Rep(Cls(Whitespace \cup {","}), 1, TRUE),
           Grp(2, Number), Opt(Cls({")", "]"}))>>)],
  [name |-> "keys", pattern |->
     Cat(<<OneOf(<<"press", "send", "type">>), Spaces,
           Opt(Cat(<<Lit("key"), Opt(Lit("s")), Spaces>>)),
           Quote, Grp(1, Unquoted), Quote>>)],
  [name |-> "directory", pattern |->
     Cat(<<OneOf(<<"in", "from", "at">>), Spaces, OneOf(<<"folder", "directory">>),
           Spaces, Quote, Grp(1, Unquoted), Quote>>)] >>

\* d[key] = v
DictSet(d, key, v) ==
  [k \in (DOMAIN d) \cup {key} |-> IF k = key THEN v ELSE d[k]]

\* the outcome of a call that raises instead of returning a value
Raised(exc) == [t |-> "raise", exc |-> exc]

IsRaised(outcome) == "exc" \in DOMAIN outcome

\* longest digit string int() converts (sys.int_info.default_max_str_digits
\* of CPython 3.11)
MaxStrDigits == 4300

\* int(s): the integer, or ValueError
int(s) ==
  IF IsDigits(s) /\ Len(s) <= MaxStrDigits THEN PyInt(ParseInt(s))
  ELSE Raised("ValueError")

RECURSIVE CommonParameters(_, _, _)
\* the loop over PARAMETER_PATTERNS, from entry k on
CommonParameters(s, k, d) ==
  IF k > Len(PARAMETER_PATTERNS) THEN PyDict(d)
  ELSE LET p == PARAMETER_PATTERNS[k]
           m == Search(p.pattern, s)
       IN  IF ~m.found THEN CommonParameters(s, k + 1, d)
           ELSE IF p.name = "coordinates"
                THEN IF IsRaised(int(m.g[1].s)) \/ IsRaised(int(m.g[2].s))
                     THEN Raised("ValueError")
                     ELSE CommonParameters(s, k + 1,
                            DictSet(DictSet(d, "x", int(m.g[1].s)),
                                    "y", int(m.g[2].s)))
                ELSE IF m.g[1].t = "str"
                     THEN CommonParameters(s, k + 1,
                            DictSet(d, p.name, PyStr(Strip(m.g[1].s))))
                     ELSE Raised("AttributeError")

type_mappings == <<
  [keyword |-> "word", file_type |-> "docx"],
  [keyword |-> "doc", file_type |-> "docx"],
  [keyword |-> "document", file_type |-> "docx"],
  [keyword |-> "excel", file_type |-> "xlsx"],
  [keyword |-> "spreadsheet", file_type |-> "xlsx"],
  [keyword |-> "pdf", file_type |-> "pdf"],
  [keyword |-> "text", file_type |-> "txt"],
  [keyword |-> "txt", file_type |-> "txt"],
  [keyword |-> "python", file_type |-> "py"],
  [keyword |-> "code", file_type |-> "py"],
  [keyword |-> "json", file_type |-> "json"] >>

RECURSIVE FirstFileType(_, _)
FirstFileType(s, k) ==
  IF k > Len(type_mappings) THEN "txt"
  ELSE IF Contains(type_mappings[k].keyword, s) THEN type_mappings[k].file_type
       ELSE FirstFileType(s, k + 1)

_extract_file_type(command) == FirstFileType(Lower(command), 1)

_extract_topic_from_creation_command(command) ==
  LET c1 == SubEmpty(OneOf(<<"create", "make", "new", "generate", "write", "file",
                             "document", "about", "on", "for">>), Lower(command))
      c2 == SubEmpty(OneOf(<<"word", "excel", "pdf", "text", "txt", "python",
                             "code", "json">>), c1)
      c3 == Strip(SplitJoin(c2))
  IN  IF c3 # "" THEN c3 ELSE "general topic"

CityPattern ==
  Cat(<<OneOf(<<"weather", "temperature", "forecast">>), Rep(Dot, 0, FALSE),
        OneOf(<<"in", "for", "at", "of">>), Spaces, Grp(1, NameChars)>>)

AppPattern == Cat(<<Lit("open"), Spaces, Grp(1, NameChars)>>)

\* intent is a Python value, action a Python str; the result is a dict or
\* the exception raised
extract_parameters(command, intent, action) ==
  LET command_lower == Lower(command)
      common == CommonParameters(command_lower, 1, EmptyDict)
  IN  IF common.t = "raise" THEN common
      ELSE LET d == common.d
           IN  IF intent = PyStr("file_creation")
               THEN LET d1 == DictSet(d, "file_type",
                                      PyStr(_extract_file_type(command)))
                    IN  IF "content" \notin DOMAIN d1
                        THEN PyDict(DictSet(d1, "content_topic",
                               PyStr(_extract_topic_from_creation_command(command))))
                        ELSE PyDict(d1)
               ELSE IF intent = PyStr("weather_inquiry")
               THEN LET city_match == Search(CityPattern, command_lower)
                    IN  IF "city_name" \notin DOMAIN d /\ city_match.found
                        THEN PyDict(DictSet(d, "city",
                                            PyStr(Strip(city_match.g[1].s))))
                        ELSE PyDict(d)
               ELSE IF intent = PyStr("system_control") /\ action = "open_application"
               THEN LET app_match == Search(AppPattern, command_lower)
                    IN  IF "application_name" \notin DOMAIN d /\ app_match.found
                        THEN PyDict(DictSet(d, "application",
                                            PyStr(Strip(app_match.g[1].s))))
                        ELSE PyDict(d)
               ELSE PyDict(d)


(***************************************************************************)
(* json.loads, for texts made of objects, strings without escape           *)
(* sequences, integers, null, true and false                               *)
(***************************************************************************)
JsonWhitespace == {" ", "\t", "\n", "\r"}

JsonFail == [ok |-> FALSE, v |-> PyNone, e |-> 0]
JsonOk(v, e) == [ok |-> TRUE, v |-> v, e |-> e]

\* the first position from i on that holds no whitespace
JsonSkip(s, i) ==
  IF i > Len(s) THEN i
  ELSE Min({j \in i..(Len(s) + 1) : j > Len(s) \/ Chr(s, j) \notin JsonWhitespace})

\* position of the quote that closes a string whose content starts at i;
\* 0 when the string is not terminated or holds a control character
JsonStringEnd(s, i) ==
  LET stops == {j \in i..Len(s) :
                  Chr(s, j) \in {"\"", "\n", "\t", "\r", "\f", "\\"}}
  IN  IF stops = {} THEN 0
      ELSE IF Chr(s, Min(stops)) = "\"" THEN Min(stops) ELSE 0

JsonString(s, i) ==
  IF i <= Len(s) /\ Chr(s, i) = "\""
  THEN LET q == JsonStringEnd(s, i + 1)
       IN  IF q = 0 THEN JsonFail
           ELSE JsonOk(PyStr(SubSeq(s, i + 1, q - 1)), q + 1)
  ELSE JsonFail

JsonNumber(s, i) ==
  LET neg == i <= Len(s) /\ Chr(s, i) = "-"
      b == IF neg THEN i + 1 ELSE i
      n == Run(Cls(Digits), s, b)
      digits == SubSeq(s, b, b + n - 1)
  IN  IF n = 0 \/ (n > 1 /\ Chr(s, b) = "0") THEN JsonFail
      ELSE JsonOk(PyInt(IF neg THEN 0 - ParseInt(digits) ELSE ParseInt(digits)),
                  b + n)

RECURSIVE JsonValue(_, _)
RECURSIVE JsonMembers(_, _, _)

\* the members of an object from position i (after '{' or ','), added to d
JsonMembers(s, i, d) ==
  LET key == JsonString(s, JsonSkip(s, i))
  IN  IF ~key.ok THEN JsonFail
      ELSE LET c == JsonSkip(s, key.e)
           IN  IF ~(c <= Len(s) /\ Chr(s, c) = ":") THEN JsonFail
               ELSE LET val == JsonValue(s, JsonSkip(s, c + 1))
                    IN  IF ~val.ok THEN JsonFail
                        ELSE LET n == JsonSkip(s, val.e)
                                 d1 == DictSet(d, key.v.s, val.v)
                             IN  IF n > Len(s) THEN JsonFail
                                 ELSE IF Chr(s, n) = "}" THEN JsonOk(PyDict(d1), n + 1)
                                 ELSE IF Chr(s, n) = "," THEN JsonMembers(s, n + 1, d1)
                                 ELSE JsonFail

JsonValue(s, i) ==
  IF i > Len(s) THEN JsonFail
  ELSE IF Chr(s, i) = "{"
       THEN LET n == JsonSkip(s, i + 1)
            IN  IF n <= Len(s) /\ Chr(s, n) = "}" THEN JsonOk(PyDict(EmptyDict), n + 1)
                ELSE JsonMembers(s, i + 1, EmptyDict)
  ELSE IF Chr(s, i) = "\"" THEN JsonString(s, i)
  ELSE IF StartsAt("null", s, i) THEN JsonOk(PyNone, i + 4)
  ELSE IF StartsAt("true", s, i) THEN JsonOk(PyBool(TRUE), i + 4)
  ELSE IF StartsAt("false", s, i) THEN JsonOk(PyBool(FALSE), i + 5)
  ELSE JsonNumber(s, i)

\* json.loads(s): the value, or a failure (JSONDecodeError)
json_loads(s) ==
  LET val == JsonValue(s, JsonSkip(s, 1))
  IN  IF val.ok /\ JsonSkip(s, val.e) = Len(s) + 1 THEN val ELSE JsonFail

\* d.get(key, default)
DictGet(d, key, default) == IF key \in DOMAIN d THEN d[key] ELSE default


(***************************************************************************)
(* CommandAnalysis and the generative adapter                              *)
(***************************************************************************)
\* confidence is kept in hundredths: 0.8 is 80
CommandAnalysis(intent, action, parameters, response, confidence) ==
  [intent |-> intent, action |-> action, parameters |-> parameters,
   response |-> response, confidence |-> confidence,
   requires_confirmation |-> FALSE]

\* re.search(r'\{.*\}', text, re.DOTALL)
JsonSpan == Cat(<<Lit("{"), Rep(DotAll, 0, TRUE), Lit("}")>>)

AnalysisFromReply_RuleConfidence(text) ==
  LET json_match == Search(JsonSpan, text)
  IN  IF json_match.found
      THEN LET analysis_data ==
                 json_loads(SubSeq(text, json_match.b, json_match.e - 1))
           IN  IF analysis_data.ok
               THEN CommandAnalysis(
                      DictGet(analysis_data.v.d, "intent", PyStr("conversation")),
                      DictGet(analysis_data.v.d, "action", PyStr("chat")),
                      DictGet(analysis_data.v.d, "parameters", PyDict(EmptyDict)),
                      DictGet(analysis_data.v.d, "response", PyNone),
                      80)
               ELSE Raised("JSONDecodeError")
      ELSE Raised("ValueError")

AnalysisFromReply_NullDefaults(text) ==
  LET json_match == Search(JsonSpan, text)
  IN  IF json_match.found
      THEN LET analysis_data ==
                 json_loads(SubSeq(text, json_match.b, json_match.e - 1))
           IN  IF analysis_data.ok
               THEN CommandAnalysis(
                      DictGet(analysis_data.v.d, "intent", PyNone),
                      DictGet(analysis_data.v.d, "action", PyNone),
                      DictGet(analysis_data.v.d, "parameters", PyNone),
                      DictGet(analysis_data.v.d, "response", PyNone),
                      90)
               ELSE Raised("JSONDecodeError")
      ELSE Raised("ValueError")

\* _ai_analyze_command from the reply of the service on: the analysis
\* built from the reply text, or the exception raised
AnalysisFromReply(text) ==
  LET json_match == Search(JsonSpan, text)
  IN  IF json_match.found
      THEN LET analysis_data ==
                 json_loads(SubSeq(text, json_match.b, json_match.e - 1))
           IN  IF analysis_data.ok
               THEN CommandAnalysis(
                      DictGet(analysis_data.v.d, "intent", PyStr("conversation")),
                      DictGet(analysis_data.v.d, "action", PyStr("chat")),
                      DictGet(analysis_data.v.d, "parameters", PyDict(EmptyDict)),
                      DictGet(analysis_data.v.d, "response", PyNone),
                      90)
               ELSE Raised("JSONDecodeError")
      ELSE Raised("ValueError")


\* the responses of _generate_fallback_response
FallbackPool == {
  "I'm not sure how to help with that. Could you please rephrase your request?",
  "I don't understand that command. Try asking me to create a file, open an application, or search for something.",
  "Could you be more specific about what you'd like me to do?",
  "I'm having trouble understanding. Try commands like 'create a document', 'open calculator', or 'search for AI'." }

LowerToUpper(c) ==
  IF \E u \in DOMAIN UpperToLower : UpperToLower[u] = c
  THEN CHOOSE u \in DOMAIN UpperToLower : UpperToLower[u] = c
  ELSE c

\* str.capitalize()
Capitalize(s) ==
  IF s = "" THEN "" ELSE LowerToUpper(Chr(s, 1)) \o Lower(SubSeq(s, 2, Len(s)))

\* seq[-n:]
LastN(seq, n) ==
  IF Len(seq) <= n THEN seq ELSE SubSeq(seq, Len(seq) - n + 1, Len(seq))

\* s[:n]
FirstChars(s, n) == IF Len(s) <= n THEN s ELSE SubSeq(s, 1, n)

RECURSIVE JoinLines(_, _)
JoinLines(lines, k) ==
  IF k > Len(lines) THEN ""
  ELSE (IF k > 1 THEN "\n" ELSE "") \o lines[k] \o JoinLines(lines, k + 1)

\* formatted_history of _ai_analyze_command: the text, or the exception
\* raised when the content of an entry cannot be sliced
FormatHistory(hist) ==
  LET recent == LastN(hist, 4)
  IN  IF \E k \in 1..Len(recent) : recent[k].content.t # "str"
      THEN Raised("TypeError")
      ELSE PyStr(JoinLines([k \in 1..Len(recent) |->
                   Capitalize(recent[k].role) \o ": "
                     \o FirstChars(recent[k].content.s, 100) \o "..."], 1))

(***************************************************************************)
(* Inputs                                                                  *)
(***************************************************************************)
\* longest command, in words of the vocabulary
MaxWords == 2

Words == {" ", "\n", "hello", "Create ", "file", "open the app",
          "what is", "weather in paris", "click at 5, 6", "forget"}

RECURSIVE WordLists(_)
WordLists(n) ==
  IF n = 0 THEN {<<>>}
  ELSE LET shorter == WordLists(n - 1)
       IN  shorter \cup {Append(l, w) : l \in shorter, w \in Words}

RECURSIVE Concat(_)
Concat(l) == IF l = <<>> THEN "" ELSE Head(l) \o Concat(Tail(l))

Commands == {Concat(l) : l \in WordLists(MaxWords)}

\* most members of the JSON object of a reply
MaxMembers == 1

Members == {"\"intent\": \"web_browse\"", "\"intent\": \"banana\"",
            "\"intent\": null", "\"action\": \"open_url\"",
            "\"parameters\": null", "\"parameters\": {\"city\": null}",
            "\"response\": \"\"", "\"response\": \"Hi\"", "intent: help"}

RECURSIVE MemberLists(_)
MemberLists(n) ==
  IF n = 0 THEN {<<>>}
  ELSE LET shorter == MemberLists(n - 1)
       IN  shorter \cup {Append(l, m) : l \in shorter, m \in Members}

RECURSIVE JoinMembers(_, _)
JoinMembers(l, k) ==
  IF k > Len(l) THEN ""
  ELSE (IF k > 1 THEN ", " ELSE "") \o l[k] \o JoinMembers(l, k + 1)

\* the prose a reply puts before and after its JSON object
Framings == {<<"", "">>, <<"Sure, here it is:\n", "\nAnything else?">>,
             <<"", " (see {docs})">>}

\* the replies the service gives while the assistant processes commands
ProcessReplies == {"I cannot answer that.", "{\"response\": \"\"}",
                   "{\"response\": \"Hi\"}", "{\"response\": 5}",
                   "{\"intent\": \"web_browse\", \"response\": null}",
                   "{\"intent\": \"memory_query\", \"action\": \"recall_conversation\"}"}

Replies ==
  {f[1] \o "{" \o JoinMembers(l, 1) \o "}" \o f[2] :
     f \in Framings, l \in MemberLists(MaxMembers)}
  \cup ProcessReplies
  \cup {"{\"intent\": \"weather_inquiry\", \"action\": \"get_weather\", \"parameters\": {\"city\": \"Paris\"}, \"response\": null}",
        "{\"intent\": \"conversation\", \"action\": \"chat\", \"parameters\": {}, \"response\": \"I'm doing well!\"}"}

\* the commands given to process_command, and how many of them
ProcessCommands == {"", " \n", "hello", "forget", "Create file"}

MaxCommands == 2

Histories == {
  <<>>,
  <<[role |-> "user", content |-> PyStr("hello")],
    [role |-> "assistant", content |-> PyStr("Hi")],
    [role |-> "user", content |-> PyStr("open the app")],
    [role |-> "assistant", content |-> PyStr("Opened.")],
    [role |-> "user", content |-> PyStr("forget")]>> }


(***************************************************************************)
(* State                                                                   *)
(***************************************************************************)
VARIABLES
  use_ai_analysis,  \* AI_Core.use_ai_analysis: a generative client is configured
  a_command,        \* the command argument of the analyze_command call in progress
  a_history,        \* its history argument
  a_pc,             \* position of the call in analyze_command
  a_intent,         \* the local variable intent
  result,           \* the CommandAnalysis returned by analyze_command
  service,          \* the request to the generative service
  calls,            \* calls made by the analyze_command call, per callee
  tiers,            \* tiers entered by the analyze_command call, in order
  p_pc,             \* position of the process_command call
  p_command,        \* the command argument of process_command
  p_result,         \* what process_command returned or raised
  analysis,         \* the local variable analysis of process_command
  execute_calls,    \* calls of _execute_action made by the process_command call
  conversation_history,  \* JarvisCore.conversation_history
  memory,           \* JarvisCore.memory
  memory_file,      \* the content of jarvis_memory.json
  eleven_client,    \* VoiceIO.eleven_client is set
  mixer_ready,      \* pygame.mixer.init() succeeded in VoiceIO.__init__
  audio_queue,      \* VoiceIO.audio_queue
  current_audio_id, \* VoiceIO.current_audio_id
  commands_done,    \* process_command calls completed
  unfinished_tasks, \* VoiceIO.audio_queue.unfinished_tasks
  parked,           \* the frames of the analyze_command calls of the threads
                    \* that are not running
  probe,            \* the last direct call of a classifier, mapper or
                    \* extractor method, and one earlier call kept to compare
  appended,         \* every entry appended to conversation_history, in order
  added,            \* the facts and interactions the memory was loaded with
                    \* or given since it was last cleared, in order
  current_session_id,  \* the local current_session_id of _process_audio_queue
  now_playing,      \* the item the audio thread is generating and playing
  heard,            \* the items the audio thread generated and played, in order
  skipped,          \* the last item the audio thread skipped, with the id of
                    \* the latest speech session at that time
  stream,           \* the items a _process_streaming_text thread has yet to put
  waiter,           \* position of the wait_for_audio_complete call
  voice_calls,      \* calls of VoiceIO methods made
  files,            \* the files that exist, by resolved path
  touched,          \* the accesses to the file system of the last handler call
  file_reply,       \* what the last _handle_file_management call returned
  file_calls,       \* calls of _handle_file_management made
  conversations,    \* JarvisMemoryManager.memory["conversations"]
  history_returned, \* the last call of get_conversation_history: its limit,
                    \* the entries stored then and the entries returned
  manager_calls     \* calls of JarvisMemoryManager methods made

avars == <<use_ai_analysis, a_command, a_history, a_pc, a_intent, result, service,
           calls, tiers>>

pvars == <<p_pc, p_command, p_result, analysis, execute_calls,
           conversation_history, memory, memory_file, eleven_client,
           mixer_ready, audio_queue, current_audio_id, commands_done,
           unfinished_tasks>>

xvars == <<parked, probe>>

gvars == <<appended, added>>

qvars == <<current_session_id, now_playing, heard, skipped, stream, waiter,
           voice_calls>>

\* the variables of the later sections but appended and added
fvars == <<files, touched, file_reply, file_calls>>

mvars == <<conversations, history_returned, manager_calls>>

yvars_but_g == <<qvars, fvars, mvars>>

yvars == <<gvars, yvars_but_g>>

vars == <<avars, pvars, xvars, yvars>>

NoResult == [t |-> "none"]
ServiceIdle == [st |-> "idle", prompt |-> <<>>, text |-> ""]
NoCalls == [classify_intent |-> 0, get_action |-> 0, extract_parameters |-> 0,
            generate_content |-> 0]

\* the memory _load_memory returns when there is no memory file
EmptyMemory == [facts |-> <<>>, conversations |-> <<>>,
                preferences |-> EmptyDict, interactions |-> <<>>]

NoFile == [t |-> "none"]

\* AI_Core.__init__: the client is configured or not
InitAnalyze ==
  /\ use_ai_analysis \in BOOLEAN
  /\ a_command = ""
  /\ a_history = <<>>
  /\ a_pc = "idle"
  /\ a_intent = PyNone
  /\ result = NoResult
  /\ service = ServiceIdle
  /\ calls = NoCalls
  /\ tiers = <<>>

\* JarvisCore.__init__ and VoiceIO.__init__, with the memory _load_memory
\* returns and the memory file it found
InitProcessWith(loaded, file) ==
  /\ p_pc = "idle"
  /\ p_command = ""
  /\ p_result = NoResult
  /\ analysis = NoResult
  /\ execute_calls = 0
  /\ conversation_history = <<>>
  /\ memory = loaded
  /\ memory_file = file
  /\ eleven_client \in BOOLEAN
  /\ mixer_ready \in BOOLEAN
  /\ audio_queue = <<>>
  /\ current_audio_id = 0
  /\ commands_done = 0
  /\ unfinished_tasks = 0
  /\ appended = <<>>
  /\ added = [facts |-> loaded.facts, interactions |-> loaded.interactions]

\* there is no memory file
InitProcess == InitProcessWith(EmptyMemory, NoFile)

\* most analyze_command calls in progress at a time on one AI_Core
MaxCalls == 2

\* the locals of an analyze_command call that has not been entered
IdleFrame == [command |-> "", history |-> <<>>, pc |-> "idle", intent |-> PyNone,
              result |-> NoResult, service |-> ServiceIdle, calls |-> NoCalls,
              tiers |-> <<>>]

NoProbe == [t |-> "none"]

\* no other thread is in analyze_command, and no method was called directly
InitCallers ==
  /\ parked = [k \in 1..(MaxCalls - 1) |-> IdleFrame]
  /\ probe = [last |-> NoProbe, kept |-> NoProbe]

NoItem == [t |-> "none"]

DigitChar(n) == CHOOSE c \in Digits : DigitValue(c) = n

RECURSIVE IntStr(_)
\* str(n) for n >= 0
IntStr(n) == IF n < 10 THEN DigitChar(n) ELSE IntStr(n \div 10) \o DigitChar(n % 10)

\* VoiceIO.__init__ has started the audio thread, which has taken no item
InitAudio ==
  /\ current_session_id = PyNone
  /\ now_playing = NoItem
  /\ heard = <<>>
  /\ skipped = NoItem
  /\ stream = <<>>
  /\ waiter = "idle"
  /\ voice_calls = 0

\* the files of the machine: two in the workspace, one beside it and one
\* elsewhere
HomeFiles == {<<"home", "user", "JARVIS_Workspace", "notes.txt">>,
              <<"home", "user", "JARVIS_Workspace", "run.py">>,
              <<"home", "user", "secret.txt">>,
              <<"etc", "passwd">>}

InitFiles ==
  /\ files = HomeFiles
  /\ touched = {}
  /\ file_reply = ""
  /\ file_calls = 0

\* the conversation entries a memory file of the manager holds; an entry
\* has a timestamp and a session id as well, which no method reads
StoredConversations(n) ==
  [k \in 1..n |-> [role |-> IF k % 2 = 1 THEN "user" ELSE "assistant",
                   content |-> "entry " \o IntStr(k)]]

\* JarvisMemoryManager.__init__ on a memory file with n conversation entries
InitManagerWith(n) ==
  /\ conversations = StoredConversations(n)
  /\ history_returned = NoResult
  /\ manager_calls = 0

InitOthers == InitCallers /\ InitAudio /\ InitFiles /\ InitManagerWith(0)

Init == InitAnalyze /\ InitProcess /\ InitOthers

\* an AI_Core used on its own: no JarvisCore and no VoiceIO exist
InitAlone == Init /\ ~eleven_client /\ ~mixer_ready

\* an assistant without generative client and without voice
InitRules == InitAlone /\ ~use_ai_analysis

(***************************************************************************)
(* AI_Core.analyze_command                                                 *)
(***************************************************************************)
\* a caller enters analyze_command(cmd, hist)
Call(cmd, hist) ==
  /\ a_pc = "idle"
  /\ a_pc' = "entered"
  /\ a_command' = cmd
  /\ a_history' = hist
  /\ UNCHANGED <<use_ai_analysis, a_intent, result, service, calls, tiers>>

\* the caller has taken the result: the frame of the call is gone
Return ==
  /\ a_pc' = "idle"
  /\ a_command' = ""
  /\ a_history' = <<>>
  /\ a_intent' = PyNone
  /\ result' = NoResult
  /\ service' = ServiceIdle
  /\ calls' = NoCalls
  /\ tiers' = <<>>
  /\ UNCHANGED use_ai_analysis

\* if not command.strip(): return the greeting
EmptyCheck ==
  /\ a_pc = "entered"
  /\ Strip(a_command) = ""
  /\ result' = CommandAnalysis(PyStr("conversation"), PyStr("chat"),
                               PyDict(EmptyDict), PyStr("How can I help you?"), 0)
  /\ a_pc' = "returned"
  /\ UNCHANGED <<use_ai_analysis, a_command, a_history, a_intent, service, calls, tiers>>
  /\ UNCHANGED <<pvars, xvars, yvars>>

Classify_NoStrip ==
  /\ a_pc = "entered"
  /\ a_command # ""
  /\ a_intent' = classify_intent(a_command)
  /\ calls' = [calls EXCEPT !.classify_intent = @ + 1]
  /\ tiers' = Append(tiers, "rule")
  /\ a_pc' = "classified"
  /\ UNCHANGED <<use_ai_analysis, a_command, a_history, result, service>>
  /\ UNCHANGED <<pvars, xvars, yvars>>

\* Step 1: intent = IntentClassifier.classify_intent(command)
Classify ==
  /\ a_pc = "entered"
  /\ Strip(a_command) # ""
  /\ a_intent' = classify_intent(a_command)
  /\ calls' = [calls EXCEPT !.classify_intent = @ + 1]
  /\ tiers' = Append(tiers, "rule")
  /\ a_pc' = "classified"
  /\ UNCHANGED <<use_ai_analysis, a_command, a_history, result, service>>
  /\ UNCHANGED <<pvars, xvars, yvars>>

\* if intent and intent != 'conversation'
Actionable(i) == Truthy(i) /\ i # PyStr("conversation")

RuleTier_NoMapper ==
  /\ a_pc = "classified"
  /\ Actionable(a_intent)
  /\ LET action == "default_action"
         parameters == extract_parameters(a_command, a_intent, action)
     IN  IF IsRaised(parameters)
         THEN a_pc' = "raised" /\ UNCHANGED result
         ELSE /\ result' = CommandAnalysis(a_intent, PyStr(action), parameters,
                                          PyNone, 80)
              /\ a_pc' = "returned"
  /\ calls' = [calls EXCEPT !.extract_parameters = @ + 1]
  /\ UNCHANGED <<use_ai_analysis, a_command, a_history, a_intent, service, tiers>>
  /\ UNCHANGED <<pvars, xvars, yvars>>

\* the rule-based analysis succeeded: map the action, extract the parameters
RuleTier ==
  /\ a_pc = "classified"
  /\ Actionable(a_intent)
  /\ LET action == get_action(a_intent, a_command)
         parameters == extract_parameters(a_command, a_intent, action)
     IN  IF IsRaised(parameters)
         THEN a_pc' = "raised" /\ UNCHANGED result
         ELSE /\ result' = CommandAnalysis(a_intent, PyStr(action), parameters,
                                          PyNone, 80)
              /\ a_pc' = "returned"
  /\ calls' = [calls EXCEPT !.get_action = @ + 1, !.extract_parameters = @ + 1]
  /\ UNCHANGED <<use_ai_analysis, a_command, a_history, a_intent, service, tiers>>
  /\ UNCHANGED <<pvars, xvars, yvars>>

AIRequest_NoClientCheck ==
  /\ a_pc = "classified"
  /\ ~Actionable(a_intent)
  /\ LET formatted_history == FormatHistory(a_history)
     IN  IF IsRaised(formatted_history)
         THEN a_pc' = "ai_failed" /\ UNCHANGED <<service, calls>>
         ELSE /\ service' = [st |-> "pending",
                             prompt |-> <<a_command, formatted_history.s>>,
                             text |-> ""]
              /\ calls' = [calls EXCEPT !.generate_content = @ + 1]
              /\ a_pc' = "waiting"
  /\ tiers' = Append(tiers, "generative")
  /\ UNCHANGED <<use_ai_analysis, a_command, a_history, a_intent, result>>
  /\ UNCHANGED <<pvars, xvars, yvars>>

AIRequest_TrimsHistory ==
  /\ a_pc = "classified"
  /\ ~Actionable(a_intent)
  /\ use_ai_analysis
  /\ LET formatted_history == FormatHistory(a_history)
     IN  IF IsRaised(formatted_history)
         THEN a_pc' = "ai_failed" /\ UNCHANGED <<service, calls>>
         ELSE /\ service' = [st |-> "pending",
                             prompt |-> <<a_command, formatted_history.s>>,
                             text |-> ""]
              /\ calls' = [calls EXCEPT !.generate_content = @ + 1]
              /\ a_pc' = "waiting"
  /\ a_history' = LastN(a_history, 4)
  /\ tiers' = Append(tiers, "generative")
  /\ UNCHANGED <<use_ai_analysis, a_command, a_intent, result>>
  /\ UNCHANGED <<pvars, xvars, yvars>>

\* Step 2: _ai_analyze_command formats the history and calls generate_content
AIRequest ==
  /\ a_pc = "classified"
  /\ ~Actionable(a_intent)
  /\ use_ai_analysis
  /\ LET formatted_history == FormatHistory(a_history)
     IN  IF IsRaised(formatted_history)
         THEN a_pc' = "ai_failed" /\ UNCHANGED <<service, calls>>
         ELSE /\ service' = [st |-> "pending",
                             prompt |-> <<a_command, formatted_history.s>>,
                             text |-> ""]
              /\ calls' = [calls EXCEPT !.generate_content = @ + 1]
              /\ a_pc' = "waiting"
  /\ tiers' = Append(tiers, "generative")
  /\ UNCHANGED <<use_ai_analysis, a_command, a_history, a_intent, result>>
  /\ UNCHANGED <<pvars, xvars, yvars>>

\* the generative service answers with a text
ServiceReplies(text) ==
  /\ service.st = "pending"
  /\ service' = [service EXCEPT !.st = "replied", !.text = text]
  /\ UNCHANGED <<use_ai_analysis, a_command, a_history, a_pc, a_intent, result, calls,
                 tiers>>
  /\ UNCHANGED <<pvars, xvars, yvars>>

\* the call to the generative service raises
ServiceFails ==
  /\ service.st = "pending"
  /\ service' = [service EXCEPT !.st = "error"]
  /\ UNCHANGED <<use_ai_analysis, a_command, a_history, a_pc, a_intent, result, calls,
                 tiers>>
  /\ UNCHANGED <<pvars, xvars, yvars>>

\* what _ai_analyze_command makes of each text the service can reply
ReplyOutcome == [text \in Replies |-> AnalysisFromReply(text)]

AIReturn_Propagates ==
  /\ a_pc = "waiting"
  /\ service.st \in {"replied", "error"}
  /\ LET outcome == IF service.st = "error" THEN Raised("Exception")
                    ELSE ReplyOutcome[service.text]
     IN  IF IsRaised(outcome)
         THEN a_pc' = "raised" /\ UNCHANGED result
         ELSE a_pc' = "returned" /\ result' = outcome
  /\ UNCHANGED <<use_ai_analysis, a_command, a_history, a_intent, service, calls, tiers>>
  /\ UNCHANGED <<pvars, xvars, yvars>>

AIReturn_Retries ==
  /\ a_pc = "waiting"
  /\ service.st \in {"replied", "error"}
  /\ LET outcome == IF service.st = "error" THEN Raised("Exception")
                    ELSE ReplyOutcome[service.text]
     IN  IF IsRaised(outcome)
         THEN a_pc' = "classified" /\ UNCHANGED result
         ELSE a_pc' = "returned" /\ result' = outcome
  /\ UNCHANGED <<use_ai_analysis, a_command, a_history, a_intent, service, calls, tiers>>
  /\ UNCHANGED <<pvars, xvars, yvars>>

\* generate_content is back: _ai_analyze_command returns the analysis or
\* raises, and analyze_command returns it or logs the failure
AIReturn ==
  /\ a_pc = "waiting"
  /\ service.st \in {"replied", "error"}
  /\ LET outcome == IF service.st = "error" THEN Raised("Exception")
                    ELSE ReplyOutcome[service.text]
     IN  IF IsRaised(outcome)
         THEN a_pc' = "ai_failed" /\ UNCHANGED result
         ELSE a_pc' = "returned" /\ result' = outcome
  /\ UNCHANGED <<use_ai_analysis, a_command, a_history, a_intent, service, calls, tiers>>
  /\ UNCHANGED <<pvars, xvars, yvars>>

\* Step 3: treat as conversation, with a random fallback response
StaticFallback ==
  /\ \/ a_pc = "classified" /\ ~Actionable(a_intent) /\ ~use_ai_analysis
     \/ a_pc = "ai_failed"
  /\ \E response \in FallbackPool :
       result' = CommandAnalysis(PyStr("conversation"), PyStr("chat"),
                                 PyDict(EmptyDict), PyStr(response), 30)
  /\ tiers' = Append(tiers, "static")
  /\ a_pc' = "returned"
  /\ UNCHANGED <<use_ai_analysis, a_command, a_history, a_intent, service, calls>>
  /\ UNCHANGED <<pvars, xvars, yvars>>

\* the steps of analyze_command itself
AnalyzeStep ==
  EmptyCheck \/ Classify \/ RuleTier \/ AIRequest \/ AIReturn \/ StaticFallback

\* a direct caller of analyze_command
CallAnalyze(cmd, hist) == Call(cmd, hist) /\ UNCHANGED <<pvars, xvars, yvars>>

ReturnAnalyze ==
  /\ p_pc = "idle"
  /\ a_pc \in {"returned", "raised"}
  /\ Return
  /\ UNCHANGED <<pvars, xvars, yvars>>

NextAnalyze ==
  \/ \E cmd \in Commands, hist \in Histories : CallAnalyze(cmd, hist)
  \/ EmptyCheck
  \/ Classify
  \/ RuleTier
  \/ AIRequest
  \/ \E text \in Replies : ServiceReplies(text)
  \/ ServiceFails
  \/ AIReturn
  \/ StaticFallback
  \/ ReturnAnalyze

SpecAnalyze == InitAlone /\ [][NextAnalyze]_vars

\* once the request is sent, analyze_command takes each step that is open to
\* it; nothing makes the service answer
FairSpecAnalyze ==
  SpecAnalyze /\ WF_vars(AIReturn) /\ WF_vars(StaticFallback)


(***************************************************************************)
(* Concurrent analyze_command calls on one AI_Core                         *)
(***************************************************************************)
\* the commands and replies of the concurrent callers
ConcurrentCommands == {" \n", "hello", "Create file"}

ConcurrentReplies == {"I cannot answer that.", "{\"response\": \"Hi\"}"}

\* the locals of the analyze_command call of the running thread
Frame ==
  [command |-> a_command, history |-> a_history, pc |-> a_pc, intent |-> a_intent,
   result |-> result, service |-> service, calls |-> calls, tiers |-> tiers]

Switch_SharedIntent(k) ==
  /\ parked' = [parked EXCEPT ![k] = Frame]
  /\ a_command' = parked[k].command
  /\ a_history' = parked[k].history
  /\ a_pc' = parked[k].pc
  /\ a_intent' = a_intent
  /\ result' = parked[k].result
  /\ service' = parked[k].service
  /\ calls' = parked[k].calls
  /\ tiers' = parked[k].tiers
  /\ UNCHANGED <<use_ai_analysis, pvars, probe, yvars>>

\* the interpreter switches threads: the locals of the running call are set
\* aside and those of thread k are the running ones; the attributes of the
\* AI_Core stay where they are
Switch(k) ==
  /\ parked' = [parked EXCEPT ![k] = Frame]
  /\ a_command' = parked[k].command
  /\ a_history' = parked[k].history
  /\ a_pc' = parked[k].pc
  /\ a_intent' = parked[k].intent
  /\ result' = parked[k].result
  /\ service' = parked[k].service
  /\ calls' = parked[k].calls
  /\ tiers' = parked[k].tiers
  /\ UNCHANGED <<use_ai_analysis, pvars, probe, yvars>>

NextConcurrent ==
  \/ \E cmd \in ConcurrentCommands : CallAnalyze(cmd, <<>>)
  \/ EmptyCheck
  \/ Classify
  \/ RuleTier
  \/ AIRequest
  \/ \E text \in ConcurrentReplies : ServiceReplies(text)
  \/ ServiceFails
  \/ AIReturn
  \/ StaticFallback
  \/ ReturnAnalyze
  \/ \E k \in DOMAIN parked : Switch(k)

SpecConcurrent == InitAlone /\ [][NextConcurrent]_vars


(***************************************************************************)
(* Direct calls of classify_intent, get_action and extract_parameters      *)
(***************************************************************************)
RECURSIVE Repeat(_, _)
\* s * n
Repeat(s, n) ==
  IF n = 0 THEN ""
  ELSE IF n = 1 THEN s
  ELSE Repeat(s, n \div 2) \o Repeat(s, n - n \div 2)

\* a number of one digit more than int() converts
LongNumber == Repeat("1", MaxStrDigits + 1)

\* utterances 'create a <format keyword> document about <topic>', with the
\* extension of the keyword
CreationForms ==
  {[keyword |-> "word", file_type |-> "docx", topic |-> "artificial intelligence"],
   [keyword |-> "pdf", file_type |-> "pdf", topic |-> "cats"]}

CreationUtterance(f) == "create a " \o f.keyword \o " document about " \o f.topic

ProbeUtterances ==
  {"", "hello", " Create file\n", "open the app", "open file app",
   "open file Create document", "what is", "forget", "remember to forget",
   "weather in paris", "click at coordinates 500, 300", "click at (5,6)",
   "click on ok", "Look it UP", "click at " \o LongNumber \o ", 2"}
  \cup {CreationUtterance(f) : f \in CreationForms}

ProbeIntents == {"file_creation", "system_control", "memory_query",
                 "windows_automation"}

ProbeActions == {"default_action", "open_application"}

\* the utterances of a caller that repeats its calls
RepeatUtterances == {"hello", " Create file\n", "open the app",
                     "click at (5,6)"}

\* what each method returns for each input of the direct callers
ClassifyTable == [u \in ProbeUtterances |-> classify_intent(u)]

ActionTable ==
  [u \in ProbeUtterances, I \in ProbeIntents |-> PyStr(get_action(PyStr(I), u))]

ParameterTable ==
  [u \in ProbeUtterances, I \in ProbeIntents, a \in ProbeActions |->
     extract_parameters(u, PyStr(I), a)]

ProbeCall(fn, args, out) == [fn |-> fn, args |-> args, out |-> out]

ProbeClassify_Sticky(u) ==
  /\ probe' = [probe EXCEPT !.last =
                 ProbeCall("classify_intent", <<u>>,
                           IF ClassifyTable[u] = PyNone /\ probe.last # NoProbe
                              /\ probe.last.fn = "classify_intent"
                           THEN probe.last.out ELSE ClassifyTable[u])]
  /\ UNCHANGED <<avars, pvars, parked, yvars>>

\* IntentClassifier.classify_intent(u)
ProbeClassify(u) ==
  /\ probe' = [probe EXCEPT !.last =
                 ProbeCall("classify_intent", <<u>>, ClassifyTable[u])]
  /\ UNCHANGED <<avars, pvars, parked, yvars>>

\* ActionMapper.get_action(I, u)
ProbeAction(I, u) ==
  /\ probe' = [probe EXCEPT !.last =
                 ProbeCall("get_action", <<I, u>>, ActionTable[u, I])]
  /\ UNCHANGED <<avars, pvars, parked, yvars>>

\* ParameterExtractor.extract_parameters(u, I, a)
ProbeParameters(u, I, a) ==
  /\ probe' = [probe EXCEPT !.last =
                 ProbeCall("extract_parameters", <<u, I, a>>,
                           ParameterTable[u, I, a])]
  /\ UNCHANGED <<avars, pvars, parked, yvars>>

\* the caller keeps the last call and its outcome, to compare with a later one
ProbeKeep ==
  /\ probe.last # NoProbe
  /\ probe' = [probe EXCEPT !.kept = probe.last]
  /\ UNCHANGED <<avars, pvars, parked, yvars>>

NextRules ==
  \/ \E u \in ProbeUtterances : ProbeClassify(u)
  \/ \E u \in ProbeUtterances, I \in ProbeIntents : ProbeAction(I, u)
  \/ \E u \in ProbeUtterances, I \in ProbeIntents, a \in ProbeActions :
       ProbeParameters(u, I, a)

SpecRules == InitAlone /\ [][NextRules]_vars

NextRepeat ==
  \/ \E u \in RepeatUtterances : ProbeClassify(u)
  \/ \E u \in RepeatUtterances, I \in ProbeIntents : ProbeAction(I, u)
  \/ \E u \in RepeatUtterances, I \in ProbeIntents, a \in ProbeActions :
       ProbeParameters(u, I, a)
  \/ ProbeKeep

SpecRepeat == InitAlone /\ [][NextRepeat]_vars


(***************************************************************************)
(* VoiceIO.speak                                                           *)
(***************************************************************************)
\* the sentences of re.split(r'(?<=[.!?])\s+', s), from position i on
RECURSIVE Sentences(_, _)
Sentences(s, i) ==
  LET cuts == {j \in (i + 1)..Len(s) :
                 Chr(s, j) \in Whitespace /\ Chr(s, j - 1) \in {".", "!", "?"}}
  IN  IF cuts = {} THEN <<SubSeq(s, i, Len(s))>>
      ELSE <<SubSeq(s, i, Min(cuts) - 1)>>
             \o Sentences(s, Min(cuts) + Run(Cls(Whitespace), s, Min(cuts)))

RECURSIVE PackChunks(_, _, _, _)
\* the loop of _split_text_into_chunks from sentence k on
PackChunks(sentences, k, current_chunk, chunks) ==
  LET closed == IF current_chunk # "" THEN Append(chunks, Strip(current_chunk))
                ELSE chunks
  IN  IF k > Len(sentences) THEN closed
      ELSE IF Len(current_chunk \o sentences[k]) <= 200
      THEN PackChunks(sentences, k + 1, current_chunk \o sentences[k] \o " ",
                      chunks)
      ELSE PackChunks(sentences, k + 1, sentences[k] \o " ", closed)

_split_text_into_chunks(text) ==
  IF Len(text) <= 200 THEN <<text>>
  ELSE PackChunks(Sentences(text, 1), 1, "", <<>>)

\* stop_audio: the queue is cleared unless pygame.mixer.music.get_busy()
\* raises, which it does when the mixer was never initialised
stop_audio(queue, mixer) == IF mixer THEN <<>> ELSE queue

\* speak(text) on a VoiceIO with the given client, mixer, queue and audio id:
\* the queue and the id it leaves, the number of items it put, and the
\* exception it raises, if any
speak(text, client, mixer, queue, id) ==
  IF ~client \/ ~Truthy(text)
  THEN [exc |-> "", queue |-> queue, id |-> id, put |-> 0]
  ELSE CASE text.t = "str" ->
              LET chunks == _split_text_into_chunks(text.s)
                  kept == SelectSeq(chunks, LAMBDA c : Strip(c) # "")
              IN  [exc |-> "",
                   queue |-> stop_audio(queue, mixer)
                               \o [k \in 1..Len(kept) |->
                                     [text |-> Strip(kept[k]), audio_id |-> id]],
                   id |-> id + 1, put |-> Len(kept)]
         [] text.t = "dict" ->
              \* len(text) works, chunk.strip() does not
              [exc |-> "AttributeError", queue |-> stop_audio(queue, mixer),
               id |-> id + 1, put |-> 0]
         [] OTHER ->
              \* len(text) raises
              [exc |-> "TypeError", queue |-> stop_audio(queue, mixer),
               id |-> id, put |-> 0]

(***************************************************************************)
(* JarvisCore: memory and action handlers                                  *)
(***************************************************************************)
\* f"{v}" for None, a str, an int or a bool
PyFormat(v) ==
  CASE v.t = "None" -> "None"
    [] v.t = "str" -> v.s
    [] v.t = "int" -> IF v.n < 0 THEN "-" \o IntStr(0 - v.n) ELSE IntStr(v.n)
    [] v.t = "bool" -> IF v.b THEN "True" ELSE "False"

\* type(v).__name__
TypeName(v) ==
  CASE v.t = "None" -> "NoneType"
    [] v.t = "str" -> "str"
    [] v.t = "int" -> "int"
    [] v.t = "dict" -> "dict"
    [] v.t = "bool" -> "bool"

\* an attempt of _save_memory writes the file or fails to open it
SaveOutcomes == {"saved", "unopened"}

\* _save_memory: the file after the attempt; the failure is logged, not raised
_save_memory(mem, file, outcome) == IF outcome = "saved" THEN mem ELSE file

\* the entries carry a timestamp and the session id as well, which no
\* operation reads
_store_memory_item(content, mem, file, outcome) ==
  LET stored == [mem EXCEPT
                   !.facts = LastN(Append(@, [content |-> content]), 50)]
  IN  [response |-> PyStr("Stored in memory: " \o PyFormat(content)),
       memory |-> stored,
       file |-> _save_memory(stored, file, outcome)]

RECURSIVE FactLines(_, _)
FactLines(facts, k) ==
  IF k > Len(facts) THEN ""
  ELSE IntStr(k) \o ". " \o PyFormat(facts[k].content) \o "\n"
         \o FactLines(facts, k + 1)

_recall_memory(mem) ==
  IF mem.facts = <<>> THEN "I don't have any stored memories yet."
  ELSE "Here's what I remember:\n" \o FactLines(LastN(mem.facts, 5), 1)

RECURSIVE HistoryLines(_, _)
HistoryLines(entries, k) ==
  IF k > Len(entries) THEN ""
  ELSE (IF entries[k].role = "user" THEN "You" ELSE "Me") \o ": "
         \o (IF entries[k].content.t # "str" THEN PyFormat(entries[k].content)
             ELSE IF Len(entries[k].content.s) > 100
             THEN FirstChars(entries[k].content.s, 100) \o "..."
             ELSE entries[k].content.s)
         \o "\n" \o HistoryLines(entries, k + 1)

\* len(entry["content"]) raises for a content that is None, an int or a
\* bool, and the handler answers with the failure
_recall_conversation(hist) ==
  LET recent == LastN(hist, 6)
      unsized == {k \in 1..Len(recent) :
                    recent[k].content.t \in {"None", "int", "bool"}}
  IN  IF hist = <<>> THEN "No conversation history in this session."
      ELSE IF unsized = {}
      THEN "Recent conversation:\n" \o HistoryLines(recent, 1)
      ELSE "Failed to recall conversation: object of type '"
             \o TypeName(recent[Min(unsized)].content) \o "' has no len()"

_clear_memory(file, outcome) ==
  [response |-> PyStr("Memory cleared successfully."),
   memory |-> EmptyMemory,
   file |-> _save_memory(EmptyMemory, file, outcome)]

\* the answer of a handler that changes neither memory nor file
Answer(text, mem, file) == [response |-> PyStr(text), memory |-> mem, file |-> file]

_handle_memory_query(action, params, mem, file, hist, outcome) ==
  IF action = PyStr("store_memory")
  THEN IF params.t = "dict"
       THEN _store_memory_item(
              DictGet(params.d, "content", DictGet(params.d, "text", PyStr(""))),
              mem, file, outcome)
       ELSE Answer("Memory operation failed: '" \o TypeName(params)
                     \o "' object has no attribute 'get'", mem, file)
  ELSE IF action \in {PyStr("recall_memory"), PyStr("recall_facts")}
  THEN Answer(_recall_memory(mem), mem, file)
  ELSE IF action = PyStr("recall_conversation")
  THEN Answer(_recall_conversation(hist), mem, file)
  ELSE IF action = PyStr("clear_memory") THEN _clear_memory(file, outcome)
  ELSE IF action = PyStr("retrieve_name")
  THEN Answer("Memory operation failed: 'JarvisCore' object has no attribute "
                \o "'_retrieve_user_name'", mem, file)
  ELSE Answer("Memory action '" \o PyFormat(action) \o "' not implemented yet.",
              mem, file)

\* the intents _execute_action routes to a handler that works outside the
\* state of the assistant: on files, processes, the network, the screen
OutwardIntents == {
  "file_creation", "file_management", "system_control", "web_browse",
  "powershell_task", "weather_inquiry", "knowledge_inquiry",
  "clipboard_management", "windows_automation", "system_status",
  "network_operations", "media_control", "help"}

\* _execute_action(an): the response and the memory it leaves. Of an outward
\* handler only whether it returns its text or raises is kept.
_execute_action(an, mem, file, hist, handler_returns, outcome) ==
  IF an.intent = PyStr("memory_query")
  THEN _handle_memory_query(an.action, an.parameters, mem, file, hist, outcome)
  ELSE IF an.intent.t = "str" /\ an.intent.s \in OutwardIntents
  THEN IF handler_returns
       THEN Answer("Done: " \o an.intent.s, mem, file)
       ELSE Answer("I encountered an error while trying to "
                     \o PyFormat(an.action)
                     \o ". Please try rephrasing your request.", mem, file)
  ELSE Answer("I understand you want to " \o PyFormat(an.intent)
                \o ", but I'm not sure how to handle '" \o PyFormat(an.action)
                \o "' yet.", mem, file)

\* seq[:n]
FirstN(seq, n) == IF Len(seq) <= n THEN seq ELSE SubSeq(seq, 1, n)

_update_conversation_history_KeepsOldest(hist, cmd, response) ==
  FirstN(hist \o <<[role |-> "user", content |-> PyStr(cmd)],
                   [role |-> "assistant", content |-> response]>>, 10)

\* _update_conversation_history
_update_conversation_history(hist, cmd, response) ==
  LastN(hist \o <<[role |-> "user", content |-> PyStr(cmd)],
                  [role |-> "assistant", content |-> response]>>, 10)

_store_interaction_KeepsOldest(cmd, response, an, mem, file, outcome) ==
  LET stored == [mem EXCEPT
                   !.interactions =
                      FirstN(Append(@, [command |-> PyStr(cmd),
                                        response |-> response,
                                        intent |-> an.intent,
                                        action |-> an.action]), 100)]
  IN  [memory |-> stored, file |-> _save_memory(stored, file, outcome)]

\* _store_interaction: the memory and the file it leaves
_store_interaction(cmd, response, an, mem, file, outcome) ==
  LET stored == [mem EXCEPT
                   !.interactions =
                      LastN(Append(@, [command |-> PyStr(cmd),
                                       response |-> response,
                                       intent |-> an.intent,
                                       action |-> an.action]), 100)]
  IN  [memory |-> stored, file |-> _save_memory(stored, file, outcome)]

\* the analysis sends _execute_action to _store_memory_item, to _clear_memory
Stores(an) ==
  /\ an.intent = PyStr("memory_query")
  /\ an.action = PyStr("store_memory")
  /\ an.parameters.t = "dict"

Clears(an) == an.intent = PyStr("memory_query") /\ an.action = PyStr("clear_memory")

\* what the memory was given, after a command with analysis an and the given
\* response: the fact of a store_memory, the interaction of the command
GivenAfter(given, cmd, an, response, executed) ==
  LET acted == IF executed /\ Clears(an)
               THEN [facts |-> <<>>, interactions |-> <<>>]
               ELSE IF executed /\ Stores(an)
               THEN [given EXCEPT
                       !.facts = Append(@, [content |->
                                   DictGet(an.parameters.d, "content",
                                           DictGet(an.parameters.d, "text",
                                                   PyStr("")))])]
               ELSE given
  IN  [acted EXCEPT
         !.interactions = Append(@, [command |-> PyStr(cmd),
                                     response |-> response,
                                     intent |-> an.intent,
                                     action |-> an.action])]

\* if analysis.response:
HasResponse_NotNone(an) == an.response # PyNone

HasResponse(an) == Truthy(an.response)

(***************************************************************************)
(* JarvisCore.process_command                                              *)
(***************************************************************************)
ProcessEmptyWithin_Recorded(cmd, most) ==
  /\ p_pc = "idle"
  /\ a_pc = "idle"
  /\ commands_done < most
  /\ Strip(cmd) = ""
  /\ LET spoken == speak(PyStr("How can I help you?"), eleven_client,
                         mixer_ready, audio_queue, current_audio_id)
     IN  /\ audio_queue' = spoken.queue
         /\ current_audio_id' = spoken.id
         /\ unfinished_tasks' = unfinished_tasks + spoken.put
  /\ p_command' = cmd
  /\ p_result' = PyStr("How can I help you?")
  /\ p_pc' = "returned"
  /\ conversation_history' =
       _update_conversation_history(conversation_history, cmd,
                                    PyStr("How can I help you?"))
  /\ UNCHANGED <<analysis, execute_calls, memory, memory_file, eleven_client,
                 mixer_ready, commands_done>>
  /\ UNCHANGED <<avars, xvars, yvars>>

\* process_command(cmd) with a blank command: the greeting is spoken and
\* returned
ProcessEmptyWithin(cmd, most) ==
  /\ p_pc = "idle"
  /\ a_pc = "idle"
  /\ commands_done < most
  /\ Strip(cmd) = ""
  /\ LET spoken == speak(PyStr("How can I help you?"), eleven_client,
                         mixer_ready, audio_queue, current_audio_id)
     IN  /\ audio_queue' = spoken.queue
         /\ current_audio_id' = spoken.id
         /\ unfinished_tasks' = unfinished_tasks + spoken.put
  /\ p_command' = cmd
  /\ p_result' = PyStr("How can I help you?")
  /\ p_pc' = "returned"
  /\ UNCHANGED <<analysis, execute_calls, conversation_history, memory,
                 memory_file, eleven_client, mixer_ready, commands_done>>
  /\ UNCHANGED <<avars, xvars, yvars>>

ProcessEmpty(cmd) == ProcessEmptyWithin(cmd, MaxCommands)

\* process_command(cmd) up to its call of
\* analyze_command(command, self.conversation_history)
ProcessStartWithin(cmd, most) ==
  /\ p_pc = "idle"
  /\ commands_done < most
  /\ Strip(cmd) # ""
  /\ Call(cmd, conversation_history)
  /\ UNCHANGED <<xvars, yvars>>
  /\ p_command' = cmd
  /\ p_pc' = "analyzing"
  /\ UNCHANGED <<p_result, analysis, execute_calls, conversation_history,
                 memory, memory_file, eleven_client, mixer_ready, audio_queue,
                 current_audio_id, commands_done, unfinished_tasks>>

ProcessStart(cmd) == ProcessStartWithin(cmd, MaxCommands)

\* process_command from the return of analyze_command on.  handler_returns
\* tells whether the outward handler returns or raises, acted and stored what
\* becomes of the two attempts to save the memory.  The except clause calls
\* log_error(message, exc_info=True); log_error takes the message only, so
\* the clause raises TypeError before it speaks.
ProcessAnalyzed(handler_returns, acted, stored) ==
  /\ p_pc = "analyzing"
  /\ a_pc \in {"returned", "raised"}
  /\ IF a_pc = "raised"
     THEN /\ p_pc' = "raised"
          /\ p_result' = Raised("TypeError")
          /\ UNCHANGED <<analysis, execute_calls, conversation_history, memory,
                         memory_file, audio_queue, current_audio_id,
                         unfinished_tasks, gvars>>
     ELSE LET executed == ~HasResponse(result)
              done == IF executed
                      THEN _execute_action(result, memory, memory_file,
                                           conversation_history, handler_returns,
                                           acted)
                      ELSE [response |-> result.response, memory |-> memory,
                            file |-> memory_file]
              kept == _store_interaction(p_command, done.response, result,
                                         done.memory, done.file, stored)
              spoken == speak(done.response, eleven_client, mixer_ready,
                              audio_queue, current_audio_id)
          IN  /\ analysis' = result
              /\ execute_calls' = IF executed THEN execute_calls + 1
                                  ELSE execute_calls
              /\ conversation_history' =
                   _update_conversation_history(conversation_history, p_command,
                                                done.response)
              /\ memory' = kept.memory
              /\ memory_file' = kept.file
              /\ audio_queue' = spoken.queue
              /\ current_audio_id' = spoken.id
              /\ unfinished_tasks' = unfinished_tasks + spoken.put
              /\ appended' = appended
                                \o <<[role |-> "user", content |-> PyStr(p_command)],
                                     [role |-> "assistant",
                                      content |-> done.response]>>
              /\ added' = GivenAfter(added, p_command, result, done.response,
                                     executed)
              /\ IF spoken.exc = ""
                 THEN p_pc' = "returned" /\ p_result' = done.response
                 ELSE p_pc' = "raised" /\ p_result' = Raised("TypeError")
  /\ Return
  /\ UNCHANGED <<p_command, eleven_client, mixer_ready, commands_done>>
  /\ UNCHANGED <<xvars, yvars_but_g>>

\* the caller has the answer, or the exception, of process_command
ProcessFinish ==
  /\ p_pc \in {"returned", "raised"}
  /\ p_pc' = "idle"
  /\ p_command' = ""
  /\ p_result' = NoResult
  /\ analysis' = NoResult
  /\ execute_calls' = 0
  /\ commands_done' = commands_done + 1
  /\ UNCHANGED <<conversation_history, memory, memory_file, eleven_client,
                 mixer_ready, audio_queue, current_audio_id, unfinished_tasks>>
  /\ UNCHANGED <<avars, xvars, yvars>>

\* process_command never calls analyze_command with a blank command, so the
\* greeting of analyze_command is no step here
NextProcess ==
  \/ \E cmd \in ProcessCommands : ProcessEmpty(cmd)
  \/ \E cmd \in ProcessCommands : ProcessStart(cmd)
  \/ Classify
  \/ RuleTier
  \/ AIRequest
  \/ \E text \in ProcessReplies : ServiceReplies(text)
  \/ ServiceFails
  \/ AIReturn
  \/ StaticFallback
  \/ \E handler_returns \in BOOLEAN, acted \in SaveOutcomes, stored \in SaveOutcomes :
       ProcessAnalyzed(handler_returns, acted, stored)
  \/ ProcessFinish

SpecProcess == Init /\ [][NextProcess]_vars

(***************************************************************************)
(* A session of process_command calls on a memory loaded from the file     *)
(***************************************************************************)
\* the commands of a session, and how many of them
SessionCommands == {" ", "remember milk", "forget"}

MaxSession == 6

\* the memory file an earlier session left, with nf facts and ni interactions
StoredMemory(nf, ni) ==
  [facts |-> [k \in 1..nf |-> [content |-> PyStr("fact " \o IntStr(k))]],
   conversations |-> <<>>,
   preferences |-> EmptyDict,
   interactions |-> [k \in 1..ni |->
                      [command |-> PyStr("command " \o IntStr(k)),
                       response |-> PyStr("Done"),
                       intent |-> PyStr("conversation"),
                       action |-> PyStr("chat")]]]

\* the files _load_memory finds: none, or one that holds as many facts and
\* interactions as the assistant keeps, or one less
MemoryFiles == {NoFile} \cup {StoredMemory(50 - k, 100 - k) : k \in 0..1}

\* _load_memory
_load_memory(file) == IF file = NoFile THEN EmptyMemory ELSE file

\* a JarvisCore without generative client and without voice
InitSession ==
  /\ InitAnalyze
  /\ ~use_ai_analysis
  /\ \E file \in MemoryFiles : InitProcessWith(_load_memory(file), file)
  /\ ~eleven_client
  /\ ~mixer_ready
  /\ InitOthers

SessionEmpty(cmd) == ProcessEmptyWithin(cmd, MaxSession)

SessionStart(cmd) == ProcessStartWithin(cmd, MaxSession)

NextSession ==
  \/ \E cmd \in SessionCommands : SessionEmpty(cmd)
  \/ \E cmd \in SessionCommands : SessionStart(cmd)
  \/ Classify
  \/ RuleTier
  \/ \E saved \in SaveOutcomes : ProcessAnalyzed(TRUE, saved, saved)
  \/ ProcessFinish

SpecSession == InitSession /\ [][NextSession]_vars

(***************************************************************************)
(* VoiceIO: the audio queue, the audio thread and the callers              *)
(***************************************************************************)
\* the texts spoken: nothing, one chunk, and two sentences of 151 characters
\* that make two chunks
VoiceTexts == {"", "Hi.", Repeat("a", 150) \o ". " \o Repeat("b", 150) \o "."}

\* the sentences a streaming thread finds in its generator
StreamTexts == {<<"One.", "Two.">>}

\* calls of VoiceIO methods made in all
MaxVoiceCalls == 3

\* a VoiceIO with a configured client, on its own
InitVoice == Init /\ ~use_ai_analysis /\ eleven_client

VoiceCall ==
  /\ voice_calls < MaxVoiceCalls
  /\ voice_calls' = voice_calls + 1
  /\ UNCHANGED <<avars, xvars, gvars, fvars, mvars>>
  /\ UNCHANGED <<p_pc, p_command, p_result, analysis, execute_calls,
                 conversation_history, memory, memory_file, eleven_client,
                 mixer_ready, commands_done>>

\* speak(text)
VoiceSpeak(text) ==
  /\ VoiceCall
  /\ LET spoken == speak(PyStr(text), eleven_client, mixer_ready, audio_queue,
                         current_audio_id)
     IN  /\ audio_queue' = spoken.queue
         /\ current_audio_id' = spoken.id
         /\ unfinished_tasks' = unfinished_tasks + spoken.put
  /\ UNCHANGED <<current_session_id, now_playing, heard, skipped, stream, waiter>>

\* speak_streaming(text_generator): the queue is cleared and a thread is
\* started that will put the sentences of the generator
VoiceSpeakStreaming(sentences) ==
  /\ VoiceCall
  /\ eleven_client
  /\ stream = <<>>
  /\ audio_queue' = <<>>
  /\ current_audio_id' = current_audio_id + 1
  /\ stream' = [k \in 1..Len(sentences) |->
                  [text |-> Strip(sentences[k]), audio_id |-> current_audio_id]]
  /\ UNCHANGED <<unfinished_tasks, current_session_id, now_playing, heard,
                 skipped, waiter>>

\* _process_streaming_text: self.audio_queue.put((sentence.strip(), audio_id))
StreamPut ==
  /\ stream # <<>>
  /\ audio_queue' = Append(audio_queue, Head(stream))
  /\ unfinished_tasks' = unfinished_tasks + 1
  /\ stream' = Tail(stream)
  /\ UNCHANGED <<avars, xvars, gvars, fvars, mvars>>
  /\ UNCHANGED <<p_pc, p_command, p_result, analysis, execute_calls,
                 conversation_history, memory, memory_file, eleven_client,
                 mixer_ready, current_audio_id, commands_done>>
  /\ UNCHANGED <<current_session_id, now_playing, heard, skipped, waiter,
                 voice_calls>>

\* stop_audio()
VoiceStop ==
  /\ VoiceCall
  /\ audio_queue' = stop_audio(audio_queue, mixer_ready)
  /\ UNCHANGED <<current_audio_id, unfinished_tasks, current_session_id,
                 now_playing, heard, skipped, stream, waiter>>

\* clear_audio_queue(): self.audio_queue.queue.clear()
VoiceClear ==
  /\ VoiceCall
  /\ audio_queue' = <<>>
  /\ UNCHANGED <<current_audio_id, unfinished_tasks, current_session_id,
                 now_playing, heard, skipped, stream, waiter>>

AudioThread ==
  /\ UNCHANGED <<avars, xvars, gvars, fvars, mvars>>
  /\ UNCHANGED <<p_pc, p_command, p_result, analysis, execute_calls,
                 conversation_history, memory, memory_file, eleven_client,
                 mixer_ready, current_audio_id, commands_done>>
  /\ UNCHANGED <<stream, waiter, voice_calls>>

\* _process_audio_queue from item = self.audio_queue.get(timeout=1) to the
\* continue of an item that is skipped or to the call of
\* _generate_and_play_audio(text)
AudioTake ==
  /\ now_playing = NoItem
  /\ audio_queue # <<>>
  /\ audio_queue' = Tail(audio_queue)
  /\ current_session_id' = PyInt(Head(audio_queue).audio_id)
  /\ IF /\ current_session_id # PyNone
        /\ PyInt(Head(audio_queue).audio_id) # current_session_id
     THEN /\ skipped' = [text |-> Head(audio_queue).text,
                         audio_id |-> Head(audio_queue).audio_id,
                         latest |-> current_audio_id - 1]
          /\ UNCHANGED <<now_playing, heard, unfinished_tasks>>
     ELSE /\ now_playing' = Head(audio_queue)
          /\ heard' = Append(heard, Head(audio_queue))
          /\ UNCHANGED <<skipped, unfinished_tasks>>
  /\ AudioThread

\* _generate_and_play_audio returns, with the audio played, cut short by
\* stop_audio or not generated, and the thread calls task_done()
AudioDone ==
  /\ now_playing # NoItem
  /\ now_playing' = NoItem
  /\ unfinished_tasks' = unfinished_tasks - 1
  /\ UNCHANGED <<audio_queue, current_session_id, heard, skipped>>
  /\ AudioThread

Waiter ==
  /\ UNCHANGED <<avars, pvars, xvars, gvars, fvars, mvars>>
  /\ UNCHANGED <<current_session_id, now_playing, heard, skipped, stream>>

\* a caller enters wait_for_audio_complete()
WaitCall ==
  /\ waiter = "idle"
  /\ voice_calls < MaxVoiceCalls
  /\ voice_calls' = voice_calls + 1
  /\ waiter' = "joining"
  /\ Waiter

\* self.audio_queue.join() returns
WaitJoined ==
  /\ waiter = "joining"
  /\ unfinished_tasks = 0
  /\ waiter' = "polling"
  /\ UNCHANGED voice_calls
  /\ Waiter

\* while self.is_audio_playing(): is_playing is False, and
\* pygame.mixer.music.get_busy() is False or raises
WaitPolled ==
  /\ waiter = "polling"
  /\ now_playing = NoItem
  /\ waiter' = IF mixer_ready THEN "returned" ELSE "raised"
  /\ UNCHANGED voice_calls
  /\ Waiter

\* the caller has left wait_for_audio_complete
WaitLeft ==
  /\ waiter \in {"returned", "raised"}
  /\ waiter' = "idle"
  /\ UNCHANGED voice_calls
  /\ Waiter

NextVoice ==
  \/ \E text \in VoiceTexts : VoiceSpeak(text)
  \/ \E sentences \in StreamTexts : VoiceSpeakStreaming(sentences)
  \/ StreamPut
  \/ VoiceStop
  \/ VoiceClear
  \/ AudioTake
  \/ AudioDone
  \/ WaitCall
  \/ WaitJoined
  \/ WaitPolled
  \/ WaitLeft

SpecVoice == InitVoice /\ [][NextVoice]_vars

\* the audio thread, the streaming thread and the waiting caller run on
FairSpecVoice ==
  /\ SpecVoice
  /\ WF_vars(AudioTake)
  /\ WF_vars(AudioDone)
  /\ WF_vars(StreamPut)
  /\ WF_vars(WaitJoined)
  /\ WF_vars(WaitPolled)

(***************************************************************************)
(* SecurityValidator.validate_path and the file-management handlers        *)
(***************************************************************************)
RECURSIVE PartsFrom(_, _, _)
\* the components of the path s from position i on, after the characters
\* of `part`
PartsFrom(s, i, part) ==
  LET ended == IF part = "" THEN <<>> ELSE <<part>>
  IN  IF i > Len(s) THEN ended
      ELSE IF Chr(s, i) = "/" THEN ended \o PartsFrom(s, i + 1, "")
      ELSE PartsFrom(s, i + 1, part \o Chr(s, i))

\* Path(s)
Path(s) == [absolute |-> StartsAt("/", s, 1), parts |-> PartsFrom(s, 1, "")]

\* Config.WORKSPACE_DIR = Path.home() / "JARVIS_Workspace"
WORKSPACE_DIR == Path("/home/user/JARVIS_Workspace")

\* base / path
Under(base, path) ==
  IF path.absolute THEN path
  ELSE [absolute |-> TRUE, parts |-> base.parts \o path.parts]

RECURSIVE Normal(_, _, _)
\* the components from k on, without "." and with ".." taken with the
\* component before it
Normal(parts, k, done) ==
  IF k > Len(parts) THEN done
  ELSE IF parts[k] = "." THEN Normal(parts, k + 1, done)
  ELSE IF parts[k] = ".."
  THEN Normal(parts, k + 1,
              IF done = <<>> THEN done ELSE SubSeq(done, 1, Len(done) - 1))
  ELSE Normal(parts, k + 1, Append(done, parts[k]))

\* Path.resolve(), from the working directory of the assistant for a
\* relative path; the machine has no symbolic links
resolve(path, cwd) ==
  [absolute |-> TRUE, parts |-> Normal(Under(cwd, path).parts, 1, <<>>)]

\* base in path.parents
InParents(base, path) ==
  /\ Len(path.parts) > Len(base.parts)
  /\ SubSeq(path.parts, 1, Len(base.parts)) = base.parts

\* SecurityValidator.validate_path(path)
validate_path(path, cwd) ==
  LET resolved_path == resolve(path, cwd)
      workspace == resolve(WORKSPACE_DIR, cwd)
  IN  IF ~InParents(workspace, resolved_path) /\ resolved_path # workspace
      THEN Raised("ValueError")
      ELSE resolved_path

\* path.name
PathName(path) == IF path.parts = <<>> THEN "" ELSE path.parts[Len(path.parts)]

\* path.suffix.lower()
Suffix(path) ==
  LET name == PathName(path)
      dots == {i \in 2..Len(name) : Chr(name, i) = "."}
  IN  IF dots = {} THEN "" ELSE Lower(SubSeq(name, Max(dots), Len(name)))

\* the path a handler builds from its parameter:
\* Path(file_path), under the workspace when it is not absolute
HandlerPath(file_path) == Under(WORKSPACE_DIR, Path(file_path))

\* the file the operating system reaches by a path
Reached(path) == Normal(path.parts, 1, <<>>)

\* path.exists()
Exists(path, fs) ==
  Reached(path) \in fs \cup {Reached(WORKSPACE_DIR)}

Access(op, path) == [op |-> op, path |-> Reached(path)]

\* what a handler leaves: its reply, its accesses to the file system, the
\* files that exist
Handled(reply, accesses, fs) == [reply |-> reply, touched |-> accesses, files |-> fs]

\* open() of a path that exists: of a file, or of the workspace directory
IsFile(path, fs) == Reached(path) \in fs

_read_file(file_path, fs) ==
  LET path == HandlerPath(file_path)
  IN  IF file_path = "" THEN Handled("Please specify a file path.", {}, fs)
      ELSE IF ~Exists(path, fs)
      THEN Handled("File not found: " \o file_path, {Access("exists", path)}, fs)
      ELSE IF ~IsFile(path, fs)
      THEN Handled("Failed to read file: [Errno 21] Is a directory",
                   {Access("exists", path), Access("open", path)}, fs)
      ELSE Handled("Content of " \o PathName(path) \o ":\n",
                   {Access("exists", path), Access("open", path)}, fs)

_delete_file(file_path, fs) ==
  LET path == HandlerPath(file_path)
  IN  IF file_path = "" THEN Handled("Please specify a file path.", {}, fs)
      ELSE IF ~Exists(path, fs)
      THEN Handled("File not found: " \o file_path, {Access("exists", path)}, fs)
      ELSE IF ~IsFile(path, fs)
      THEN Handled("Failed to delete file: [Errno 21] Is a directory",
                   {Access("exists", path), Access("unlink", path)}, fs)
      ELSE Handled("File deleted: " \o PathName(path),
                   {Access("exists", path), Access("unlink", path)},
                   fs \ {Reached(path)})

_copy_file(source, destination, fs) ==
  LET src_path == HandlerPath(source)
      dst_path == HandlerPath(destination)
      \* shutil.copy2 writes into a destination that is a directory
      written == IF Reached(dst_path) = Reached(WORKSPACE_DIR)
                 THEN Append(Reached(dst_path), PathName(src_path))
                 ELSE Reached(dst_path)
  IN  IF ~IsFile(src_path, fs)
      THEN Handled("Failed to copy file: [Errno 2] No such file or directory",
                   {Access("open", src_path)}, fs)
      ELSE IF written = Reached(src_path)
      THEN Handled("Failed to copy file: the two paths are the same file",
                   {Access("open", src_path)}, fs)
      ELSE Handled("File copied from " \o PathName(src_path) \o " to "
                     \o PathName(dst_path),
                   {Access("open", src_path), [op |-> "write", path |-> written]},
                   fs \cup {written})

_open_file(file_path, fs) ==
  LET path == HandlerPath(file_path)
  IN  IF ~Exists(path, fs)
      THEN Handled("File not found: " \o file_path, {Access("exists", path)}, fs)
      ELSE Handled("Opening file: " \o PathName(path),
                   {Access("exists", path), Access("startfile", path)}, fs)

_execute_file(file_path, fs) ==
  LET path == HandlerPath(file_path)
  IN  IF file_path = ""
      THEN Handled("Please specify a file path to execute.", {}, fs)
      ELSE IF ~Exists(path, fs)
      THEN Handled("File not found: " \o file_path, {Access("exists", path)}, fs)
      ELSE IF Suffix(path) \in {".py", ".bat", ".cmd"}
      THEN Handled("Executed " \o PathName(path) \o " successfully.",
                   {Access("exists", path), Access("run", path)}, fs)
      ELSE Handled("Opened " \o PathName(path) \o " with default application.",
                   {Access("exists", path), Access("startfile", path)}, fs)

\* params.get(key, '') of a parameter mapping with str values
Param(params, key) == DictGet(params, key, PyStr("")).s

\* _handle_file_management(action, params) for the actions on one file or two
_handle_file_management(action, params, fs) ==
  IF action = "read_file" THEN _read_file(Param(params, "file_path"), fs)
  ELSE IF action = "delete_file"
  THEN IF Param(params, "file_path") = ""
       THEN Handled("Please specify the complete file path to delete.", {}, fs)
       ELSE _delete_file(Param(params, "file_path"), fs)
  ELSE IF action = "copy_file"
  THEN _copy_file(Param(params, "source"), Param(params, "destination"), fs)
  ELSE IF action = "open_file"
  THEN _open_file(IF Param(params, "file_path") = ""
                  THEN "/home/user/JARVIS_Workspace"
                  ELSE Param(params, "file_path"), fs)
  ELSE IF action = "execute_file"
  THEN _execute_file(Param(params, "file_path"), fs)
  ELSE Handled("File management action '" \o action \o "' not implemented yet.",
               {}, fs)

\* the paths given as parameters: none, relative inside the workspace,
\* relative leaving it, absolute outside it, absolute inside it
FilePaths == {"", "notes.txt", "run.py", "../secret.txt", "/etc/passwd",
              "/home/user/JARVIS_Workspace/copy.txt"}

FileActions == {"read_file", "delete_file", "copy_file", "open_file",
                "execute_file", "move_file"}

FileParams ==
  {DictSet(EmptyDict, "file_path", PyStr(f)) : f \in FilePaths}
  \cup {DictSet(DictSet(EmptyDict, "source", PyStr(f)), "destination", PyStr(g)) :
          f \in FilePaths, g \in FilePaths}

MaxFileCalls == 2

\* a call of _handle_file_management(action, params)
FileManaged(action, params) ==
  /\ file_calls < MaxFileCalls
  /\ LET done == _handle_file_management(action, params, files)
     IN  /\ files' = done.files
         /\ touched' = done.touched
         /\ file_reply' = done.reply
  /\ file_calls' = file_calls + 1
  /\ UNCHANGED <<avars, pvars, xvars, gvars, qvars, mvars>>

NextFiles == \E action \in FileActions, params \in FileParams : FileManaged(action, params)

SpecFiles == InitRules /\ [][NextFiles]_vars

(***************************************************************************)
(* JarvisCore._execute_action: the routing of (intent, action)             *)
(***************************************************************************)
\* the handlers that choose by the action: the actions that have a branch,
\* and the subject of the reply of the else branch
ActionHandlers == [
  file_management |->
    [subject |-> "File management action",
     actions |-> {"list_files", "read_file", "delete_file", "copy_file",
                  "open_file", "execute_file"}],
  system_control |->
    [subject |-> "System control action",
     actions |-> {"open_application", "take_screenshot", "get_processes",
                  "get_system_info", "get_services", "shutdown",
                  "shutdown_system", "restart", "restart_system", "lock_screen",
                  "default_action"}],
  web_browse |->
    [subject |-> "Web browsing action",
     actions |-> {"web_search", "visit_website", "open_website"}],
  powershell_task |->
    [subject |-> "PowerShell action", actions |-> {"run_powershell"}],
  memory_query |->
    [subject |-> "Memory action",
     actions |-> {"store_memory", "recall_memory", "recall_facts",
                  "recall_conversation", "clear_memory", "retrieve_name"}],
  clipboard_management |->
    [subject |-> "Clipboard action",
     actions |-> {"read_clipboard", "write_clipboard"}],
  windows_automation |->
    [subject |-> "Windows automation action",
     actions |-> {"click_coordinates", "send_keys", "get_window_list"}],
  network_operations |->
    [subject |-> "Network operation",
     actions |-> {"show_network_status", "get_network_status",
                  "disconnect_wifi", "connect_wifi", "ping_host",
                  "show_ip_config"}],
  media_control |->
    [subject |-> "Media control action",
     actions |-> {"turn_on_music", "play_music", "pause_music", "stop_music",
                  "next_track", "previous_track", "set_volume"}] ]

\* the handlers that do their operation whatever the action is
AnyActionHandlers == {"file_creation", "weather_inquiry", "knowledge_inquiry",
                      "system_status", "help"}

\* the branch _execute_action(analysis) and the handler reach for an intent
\* and an action, and the reply of a branch that performs no operation
Routing(intent, action) ==
  IF intent \in AnyActionHandlers THEN [branch |-> "operation", reply |-> ""]
  ELSE IF intent \in DOMAIN ActionHandlers
  THEN IF action \in ActionHandlers[intent].actions
       THEN [branch |-> "operation", reply |-> ""]
       ELSE [branch |-> "not implemented",
             reply |-> ActionHandlers[intent].subject \o " '" \o action
                         \o "' not implemented yet."]
  ELSE [branch |-> "not sure",
        reply |-> "I understand you want to " \o intent
                    \o ", but I'm not sure how to handle '" \o action
                    \o "' yet."]

\* the intents the rule tier can produce
RuleIntents == {INTENT_PATTERNS[n].intent : n \in 1..Len(INTENT_PATTERNS)}

\* the actions get_action can return for an intent
RuleActions(intent) ==
  {"default_action"}
  \cup UNION {{ACTION_MAPPING[n].actions[k].action :
                 k \in 1..Len(ACTION_MAPPING[n].actions)} :
              n \in {m \in 1..Len(ACTION_MAPPING) :
                       ACTION_MAPPING[m].intent = intent}}

\* commands of the help text of _get_comprehensive_help
HelpCommands == {"Click at coordinates 500, 300", "Read my clipboard",
                 "Type 'Hello World'", "Show open windows",
                 "Get system information"}

\* _execute_action on an analysis of the rule tier with this intent and action
RouteRule(intent, action) ==
  /\ probe' = [probe EXCEPT !.last =
                 ProbeCall("_execute_action", <<intent, action>>,
                           Routing(intent, action))]
  /\ UNCHANGED <<avars, pvars, parked, yvars>>

\* the intent and the action the rule tier gives each command of the help
\* text
HelpAnalysis ==
  [u \in HelpCommands |->
     [intent |-> classify_intent(u),
      action |-> get_action(classify_intent(u), u)]]

\* a command taken by the rule tier, from classify_intent to _execute_action
RouteCommand(u) ==
  /\ Actionable(HelpAnalysis[u].intent)
  /\ probe' = [probe EXCEPT !.last =
                 ProbeCall("process_command", <<u>>,
                           Routing(HelpAnalysis[u].intent.s,
                                   HelpAnalysis[u].action))]
  /\ UNCHANGED <<avars, pvars, parked, yvars>>

NextRoute ==
  \/ \E intent \in RuleIntents : \E action \in RuleActions(intent) :
       RouteRule(intent, action)
  \/ \E u \in HelpCommands : RouteCommand(u)
  \/ ProbeKeep

SpecRoute == InitRules /\ [][NextRoute]_vars

(***************************************************************************)
(* JarvisMemoryManager: the conversation entries                           *)
(***************************************************************************)
MAX_HISTORY_ENTRIES == 100

\* seq[-n:]: the last n items for n > 0, the items from 0 - n on for n < 0,
\* and seq[0:], the whole list, for n = 0
SliceFromMinus(seq, n) ==
  IF n = 0 THEN seq
  ELSE IF n > 0 THEN LastN(seq, n)
  ELSE SubSeq(seq, 1 - n, Len(seq))

\* add_conversation_entry(role, content, session_id): the entries it leaves
add_conversation_entry(role, content, stored) ==
  SliceFromMinus(Append(stored, [role |-> role, content |-> content]),
                 MAX_HISTORY_ENTRIES)

\* get_conversation_history(limit)
get_conversation_history(limit, stored) == SliceFromMinus(stored, limit)

\* the memory files the manager is started on hold no entry, or as many as
\* it keeps, or one less
ManagerFiles == {0, MAX_HISTORY_ENTRIES - 1, MAX_HISTORY_ENTRIES}

\* the limits asked for, and the contents added
HistoryLimits == {0, 1, 2, 10, MAX_HISTORY_ENTRIES, MAX_HISTORY_ENTRIES + 1}

EntryContents == {"hello", "Hi"}

MaxManagerCalls == 3

ManagerCall ==
  /\ manager_calls < MaxManagerCalls
  /\ manager_calls' = manager_calls + 1
  /\ UNCHANGED <<avars, pvars, xvars, gvars, qvars, fvars>>

AddEntry(role, content) ==
  /\ ManagerCall
  /\ conversations' = add_conversation_entry(role, content, conversations)
  /\ UNCHANGED history_returned

GetHistory(limit) ==
  /\ ManagerCall
  /\ history_returned' = [limit |-> limit, stored |-> conversations,
                          entries |-> get_conversation_history(limit,
                                                               conversations)]
  /\ UNCHANGED conversations

NextManager ==
  \/ \E role \in {"user", "assistant"}, content \in EntryContents :
       AddEntry(role, content)
  \/ \E limit \in HistoryLimits : GetHistory(limit)

InitManager ==
  /\ InitAnalyze
  /\ ~use_ai_analysis
  /\ InitProcess
  /\ ~eleven_client
  /\ ~mixer_ready
  /\ InitCallers
  /\ InitAudio
  /\ InitFiles
  /\ \E n \in ManagerFiles : InitManagerWith(n)

SpecManager == InitManager /\ [][NextManager]_vars

(***************************************************************************)
(* Properties of analyze_command                                           *)
(***************************************************************************)
\* the tier that produced the result: the last one entered
ProducedBy == IF tiers = <<>> THEN "none" ELSE tiers[Len(tiers)]

\* the generative adapter was invoked and failed
AdapterFailed ==
  \/ service.st = "error"
  \/ service.st = "replied" /\ IsRaised(AnalysisFromReply(service.text))

StaticResult(r) ==
  /\ r.intent = PyStr("conversation")
  /\ r.action = PyStr("chat")
  /\ r.parameters = PyDict(EmptyDict)
  /\ r.confidence = 30
  /\ r.response.t = "str"
  /\ r.response.s \in FallbackPool

\* C1: the generative service is invoked only for a command that is not
\* blank, for which classify_intent found no actionable intent, and with a
\* generative client configured; otherwise the call makes no request.
C1_GenerativeOnlyAsFallback ==
  (calls.generate_content > 0 \/ service.st # "idle")
    => /\ Strip(a_command) # ""
       /\ classify_intent(a_command) \in {PyNone, PyStr("conversation")}
       /\ use_ai_analysis

C1_Witness ==
  /\ a_pc = "returned"
  /\ calls.generate_content = 1
  /\ service.st = "replied"
  /\ ProducedBy = "generative"

\* C2: when the generative adapter fails (service error, no JSON object in
\* the reply, malformed JSON) analyze_command does not raise: it returns the
\* static conversational result with a response of the fallback pool.
C2_AdapterFailureFallsBack ==
  AdapterFailed =>
    /\ a_pc # "raised"
    /\ a_pc = "returned" => StaticResult(result)

C2_Witness ==
  /\ a_pc = "returned"
  /\ service.st = "replied"
  /\ service.text = "{intent: help}"
  /\ StaticResult(result)

\* C3: a blank command (empty or only whitespace) returns the fixed greeting
\* as a conversation/chat analysis with no parameters, and neither the
\* classifier, the action mapper, the parameter extractor nor the generative
\* service is called.
C3_BlankCommandGreets ==
  (a_pc \in {"returned", "raised", "classified", "waiting", "ai_failed"}
     /\ Strip(a_command) = "")
    => /\ a_pc = "returned"
       /\ result.intent = PyStr("conversation")
       /\ result.action = PyStr("chat")
       /\ result.parameters = PyDict(EmptyDict)
       /\ result.response = PyStr("How can I help you?")
       /\ calls = NoCalls
       /\ service = ServiceIdle

C3_Witness ==
  /\ a_pc = "returned"
  /\ a_command = " \n"
  /\ result.response = PyStr("How can I help you?")

\* C4: when classify_intent returns an intent I for the command, the result
\* is exactly intent I, action get_action(I, command), parameters
\* extract_parameters(command, I, action), confidence 0.8, no response and
\* requires_confirmation false.
C4_RuleResult ==
  (a_pc = "returned" /\ Strip(a_command) # ""
     /\ Actionable(classify_intent(a_command)))
    => LET I == classify_intent(a_command)
           action == get_action(I, a_command)
       IN  result = [intent |-> I, action |-> PyStr(action),
                     parameters |-> extract_parameters(a_command, I, action),
                     response |-> PyNone, confidence |-> 80,
                     requires_confirmation |-> FALSE]

C4_Witness ==
  /\ a_pc = "returned"
  /\ a_command = "Create file"
  /\ result.intent = PyStr("file_creation")
  /\ result.parameters.d["content_topic"] = PyStr("general topic")

TierOrders == {<<>>, <<"rule">>, <<"rule", "generative">>, <<"rule", "static">>,
               <<"rule", "generative", "static">>}

\* C5: one call visits the tiers in the order rule, generative, static
\* fallback, each at most once: the classifier and the generative service
\* are called at most once, and after a generative failure the only step is
\* the static fallback, which returns.
C5_TiersInOrderOnce ==
  /\ [](/\ tiers \in TierOrders
        /\ calls.classify_intent <= 1
        /\ calls.generate_content <= 1)
  /\ [][a_pc = "ai_failed" =>
          /\ a_pc' = "returned"
          /\ tiers' = Append(tiers, "static")
          /\ calls' = calls]_vars

C5_Witness ==
  /\ a_pc = "returned"
  /\ tiers = <<"rule", "generative", "static">>
  /\ calls.classify_intent = 1
  /\ calls.generate_content = 1

\* C6: every analyze_command call that has sent its request to the
\* generative service eventually returns, also when the service never answers.
C6_CallReturns == (a_pc = "waiting") ~> (a_pc = "returned")

\* Config.VALID_INTENTS, which holds every intent named in the prompt
VALID_INTENTS == {"file_creation", "file_management", "system_control",
                  "web_browse", "conversation", "help", "powershell_task",
                  "weather_inquiry", "knowledge_inquiry", "memory_query",
                  "clipboard_management", "windows_automation", "system_status",
                  "network_operations", "media_control"}

\* C7: the intent of every returned CommandAnalysis is a non-empty string of
\* the intent vocabulary.
C7_IntentInVocabulary ==
  a_pc = "returned" => result.intent.t = "str" /\ result.intent.s \in VALID_INTENTS

\* C8: the parameters of every returned CommandAnalysis are a mapping, and
\* no key of it is bound to null.
C8_NoNullParameter ==
  a_pc = "returned" =>
    /\ result.parameters.t = "dict"
    /\ \A k \in DOMAIN result.parameters.d : result.parameters.d[k] # PyNone

\* process_command has dealt with an analysis
Answered == p_pc \in {"returned", "raised"} /\ analysis # NoResult

\* C9 as amended: process_command calls _execute_action if and only if
\* analysis.response is falsy, that is null or empty: when analysis.response
\* is truthy, _execute_action is not called and process_command, when it
\* returns, returns that response; when analysis.response is null or empty,
\* _execute_action is called exactly once.
C9_ActionIffResponseFalsy ==
  Answered =>
    IF Truthy(analysis.response)
    THEN /\ execute_calls = 0
         /\ p_pc = "returned" => p_result = analysis.response
    ELSE execute_calls = 1

C9_Witness ==
  /\ p_pc = "returned"
  /\ analysis # NoResult
  /\ analysis.response = PyStr("")
  /\ execute_calls = 1

\* C9 as stated: whenever analysis.response is non-null it is returned as the
\* answer and _execute_action is not called; whenever it is null,
\* _execute_action is called exactly once.
C9_ActionIffResponseNull ==
  Answered =>
    IF analysis.response # PyNone
    THEN /\ execute_calls = 0
         /\ p_pc = "returned" => p_result = analysis.response
    ELSE execute_calls = 1

\* C10: the confidence of every returned CommandAnalysis is in [0,1] and is
\* fixed by the tier that produced it: 0.8 for the rule tier, 0.9 for the
\* generative tier and 0.3 for the static fallback, so the confidence tells
\* the tier.
C10_ConfidenceTellsTier ==
  a_pc = "returned" =>
    /\ result.confidence \in 0..100
    /\ ProducedBy = "rule" <=> result.confidence = 80
    /\ ProducedBy = "generative" <=> result.confidence = 90
    /\ ProducedBy = "static" <=> result.confidence = 30

C10_Witness ==
  /\ a_pc = "returned"
  /\ ProducedBy = "generative"
  /\ result.confidence = 90


\* C11: analyze_command and the generative adapter only read the history
\* argument: no step of a call, whatever tier it takes, changes the length,
\* the entries or their order in the caller's history, up to the return or
\* the exception.
C11_HistoryReadOnly ==
  [][(a_pc # "idle" /\ a_pc' # "idle") => a_history' = a_history]_vars

C11_Witness ==
  /\ a_pc = "returned"
  /\ Len(a_history) = 5
  /\ ProducedBy = "generative"


\* what the rule tier returns for intent I, its action and its parameters
RuleResults(I, action, parameters) ==
  IF IsRaised(parameters) THEN {}
  ELSE {CommandAnalysis(I, PyStr(action), parameters, PyNone, 80)}

RuleResultsFor(cmd, I, action) ==
  RuleResults(I, action, extract_parameters(cmd, I, action))

\* the results of a call whose classifier returned I
ResultsAfterClassify(cmd, hist, svc, I) ==
  IF Actionable(I) THEN RuleResultsFor(cmd, I, get_action(I, cmd))
  ELSE IF /\ use_ai_analysis
          /\ ~IsRaised(FormatHistory(hist))
          /\ svc.st = "replied"
          /\ ~IsRaised(ReplyOutcome[svc.text])
       THEN {ReplyOutcome[svc.text]}
       ELSE {CommandAnalysis(PyStr("conversation"), PyStr("chat"),
                             PyDict(EmptyDict), PyStr(response), 30) :
               response \in FallbackPool}

\* the results analyze_command(cmd, hist) returns when no other call runs,
\* given what the generative service did with its request
AloneResults(cmd, hist, svc) ==
  IF Strip(cmd) = ""
  THEN {CommandAnalysis(PyStr("conversation"), PyStr("chat"), PyDict(EmptyDict),
                        PyStr("How can I help you?"), 0)}
  ELSE ResultsAfterClassify(cmd, hist, svc, classify_intent(cmd))

\* the frames of all the calls in progress
Frames == {Frame} \cup {parked[k] : k \in DOMAIN parked}

\* C12: under every interleaving of concurrent analyze_command calls on one
\* AI_Core, the result of each call is a result the call returns when it runs
\* alone with the same command, history and generative reply.
C12_CallsIsolated ==
  \A f \in Frames :
    f.pc = "returned" => f.result \in AloneResults(f.command, f.history, f.service)

C12_Witness ==
  /\ a_pc = "returned"
  /\ a_command = "hello"
  /\ ProducedBy = "generative"
  /\ \E k \in DOMAIN parked :
       /\ parked[k].pc = "returned"
       /\ parked[k].command = "Create file"
       /\ parked[k].result.confidence = 80


(***************************************************************************)
(* Properties of the classifier, the action mapper and the extractor       *)
(***************************************************************************)
\* the direct call just made, when it is a call of fn
Called(fn) == probe.last # NoProbe /\ probe.last.fn = fn

\* the intents, by position in INTENT_PATTERNS, with a pattern found in s
MatchingIntents(s) ==
  {n \in 1..Len(INTENT_PATTERNS) : AnyPatternFound(INTENT_PATTERNS[n].patterns, s)}

\* the first-match reference: the earliest intent with a pattern found in
\* the lower-cased, trimmed utterance
EarliestIntent(hits) ==
  IF hits = {} THEN PyNone ELSE PyStr(INTENT_PATTERNS[Min(hits)].intent)

\* C13: classify_intent returns the earliest intent of INTENT_PATTERNS with
\* a pattern found anywhere in the lower-cased, trimmed utterance, and none
\* exactly when no pattern of any intent is found.
C13_FirstMatch ==
  Called("classify_intent") =>
    probe.last.out = EarliestIntent(MatchingIntents(Strip(Lower(probe.last.args[1]))))

C13_Witness ==
  /\ Called("classify_intent")
  /\ probe.last.args[1] = "open file app"
  /\ MatchingIntents("open file app") = {2, 3}
  /\ probe.last.out = PyStr("file_management")

\* no intent before the n-th of INTENT_PATTERNS is in hits
NoneEarlier(hits, n) == \A m \in 1..(n - 1) : m \notin hits

EarliestReturned(hits, out) ==
  \A n \in hits : NoneEarlier(hits, n) => out = PyStr(INTENT_PATTERNS[n].intent)

\* C14 as amended: for every intent I and every utterance whose lower-cased,
\* trimmed form matches a pattern of I and no pattern of an intent defined
\* before I, classify_intent returns I.
C14_ReturnsEarliestRegistered ==
  Called("classify_intent") =>
    EarliestReturned(MatchingIntents(Strip(Lower(probe.last.args[1]))),
                     probe.last.out)

C14_Witness ==
  /\ Called("classify_intent")
  /\ probe.last.args[1] = "open file Create document"
  /\ MatchingIntents("open file Create document") = {2}
  /\ probe.last.out = PyStr("file_creation")

\* C14 as stated: for every intent I and every utterance that matches a
\* pattern of I, classify_intent returns I.
C14_ReturnsEveryRegistered ==
  Called("classify_intent") =>
    \A n \in MatchingIntents(probe.last.args[1]) :
      probe.last.out = PyStr(INTENT_PATTERNS[n].intent)

\* the action get_action is to return for the table of an intent: that of
\* the first pattern found in s
FirstFound(actions, hits) ==
  IF hits = {} THEN "default_action" ELSE actions[Min(hits)].action

TableAction(actions, s) ==
  FirstFound(actions,
             {k \in 1..Len(actions) : Search(actions[k].pattern, s).found})

ActionsOf(tables) ==
  UNION {{ACTION_MAPPING[n].actions[k].action :
            k \in 1..Len(ACTION_MAPPING[n].actions)} : n \in tables}

MappedAction(tables, u) ==
  IF tables = {} THEN "default_action"
  ELSE TableAction(ACTION_MAPPING[CHOOSE n \in tables : TRUE].actions, Lower(u))

TablesOf(I) == {n \in 1..Len(ACTION_MAPPING) : ACTION_MAPPING[n].intent = I}

\* C15: get_action returns 'default_action' when the intent has no table in
\* ACTION_MAPPING or no pattern of its table is found; otherwise the action
\* of the first pattern of the table found in the lower-cased utterance; the
\* result is 'default_action' or an action of the intent's own table.
C15_ActionOfOwnTable ==
  Called("get_action") =>
    /\ probe.last.out = PyStr(MappedAction(TablesOf(probe.last.args[1]),
                                           probe.last.args[2]))
    /\ probe.last.out.s \in {"default_action"}
                               \cup ActionsOf(TablesOf(probe.last.args[1]))

C15_Witness ==
  /\ Called("get_action")
  /\ probe.last.args = <<"memory_query", "remember to forget">>
  /\ probe.last.out = PyStr("store_memory")

HasCreationParameters(out, f) ==
  /\ ~IsRaised(out)
  /\ "file_type" \in DOMAIN out.d
  /\ out.d["file_type"] = PyStr(f.file_type)
  /\ "content_topic" \in DOMAIN out.d
  /\ Contains(f.topic, out.d["content_topic"].s)

\* C16: for a file_creation utterance 'create a <format keyword> document
\* about <T>', extract_parameters returns a mapping with file_type equal to
\* the extension of the keyword and a content_topic whose value contains T.
C16_CreationParameters ==
  \A f \in CreationForms :
    (/\ Called("extract_parameters")
     /\ probe.last.args[1] = CreationUtterance(f)
     /\ probe.last.args[2] = "file_creation")
      => HasCreationParameters(probe.last.out, f)

\* the coordinate pattern of PARAMETER_PATTERNS
CoordinatesPattern == PARAMETER_PATTERNS[7].pattern

CoordinatesKept(out, m) ==
  /\ ~IsRaised(out)
  /\ "coordinates" \notin DOMAIN out.d
  /\ IF m.found
     THEN /\ {"x", "y"} \subseteq DOMAIN out.d
          /\ out.d["x"] = PyInt(ParseInt(m.g[1].s))
          /\ out.d["y"] = PyInt(ParseInt(m.g[2].s))
     ELSE {"x", "y"} \cap DOMAIN out.d = {}

\* C19: extract_parameters never raises on the coordinate pattern: when the
\* pattern matches, the result holds x and y, the integers of the first and
\* second captured numbers; when it does not, neither x nor y; and never a
\* key 'coordinates'.
C19_CoordinatesTogether ==
  Called("extract_parameters") =>
    CoordinatesKept(probe.last.out,
                    Search(CoordinatesPattern, Lower(probe.last.args[1])))

AdapterRaised ==
  a_pc = "ai_failed" \/ (a_pc = "returned" /\ ProducedBy = "static")

AdapterReturned == a_pc = "returned" /\ ProducedBy = "generative"

\* r has the values of the JSON object d, and the default of each field
\* that d does not have
FieldsFrom(r, d) ==
  /\ r.intent = DictGet(d, "intent", PyStr("conversation"))
  /\ r.action = DictGet(d, "action", PyStr("chat"))
  /\ r.parameters = DictGet(d, "parameters", PyDict(EmptyDict))
  /\ r.response = DictGet(d, "response", PyNone)
  /\ r.confidence = 90
  /\ r.requires_confirmation = FALSE

\* the replies made of leading prose, one JSON object and trailing prose,
\* each with the value of its object
Framed(f, object) ==
  [text |-> f[1] \o object \o f[2], data |-> json_loads(object)]

FramedReplies ==
  {fr \in {Framed(f, "{" \o JoinMembers(l, 1) \o "}") :
             f \in Framings, l \in MemberLists(MaxMembers)} : fr.data.ok}

\* C17: for a reply made of leading prose, one JSON object and trailing
\* prose, the adapter returns the result built from exactly that object;
\* for a reply without '{' the adapter raises.
C17_ExtractsTheObject ==
  (service.st = "replied" /\ (AdapterRaised \/ AdapterReturned)) =>
    /\ \A fr \in FramedReplies :
         service.text = fr.text =>
           AdapterReturned /\ FieldsFrom(result, fr.data.v.d)
    /\ ~Contains("{", service.text) => AdapterRaised

\* the JSON object the adapter parses out of each reply: the text from the
\* first '{' to the last '}'
SpanOf(text, m) ==
  IF m.found THEN json_loads(SubSeq(text, m.b, m.e - 1)) ELSE JsonFail

ParsedObject == [text \in Replies |-> SpanOf(text, Search(JsonSpan, text))]

\* C18: the adapter either raises or returns a CommandAnalysis of
\* confidence 0.9 whose intent, action, parameters and response are those of
\* the parsed JSON object, each missing field replaced by its default; it
\* returns exactly when the reply holds an object that parses.
C18_FullAnalysisOrRaise ==
  /\ (service.st = "error" /\ a_pc \in {"returned", "ai_failed"}) => AdapterRaised
  /\ (service.st = "replied" /\ a_pc \in {"returned", "ai_failed"}) =>
       IF ParsedObject[service.text].ok
       THEN AdapterReturned /\ FieldsFrom(result, ParsedObject[service.text].v.d)
       ELSE AdapterRaised

C18_Witness ==
  /\ AdapterReturned
  /\ service.text = "{\"action\": \"open_url\"}"
  /\ result.intent = PyStr("conversation")
  /\ result.action = PyStr("open_url")
  /\ result.parameters = PyDict(EmptyDict)
  /\ result.response = PyNone


(***************************************************************************)
(* Properties of process_command                                           *)
(***************************************************************************)
\* C21: process_command never propagates an exception: whatever step fails,
\* the caller receives a response, never an exception
C21_NeverPropagates == p_pc # "raised" /\ ~IsRaised(p_result)

\* process_command has handled a command that resolved to
\* memory_query / clear_memory
ClearHandled ==
  /\ p_pc = "returned"
  /\ Strip(p_command) # ""
  /\ execute_calls = 1
  /\ Clears(analysis)

\* C27: when process_command has handled a command resolved to
\* memory_query / clear_memory, the memory is empty in the object and in the
\* memory file: no fact, conversation, interaction or preference is left
C27_ClearLeavesNothing ==
  ClearHandled => memory = EmptyMemory /\ memory_file \in {NoFile, EmptyMemory}

\* the greeting is the last item of the audio queue
GreetingQueued(queue, id) ==
  /\ queue # <<>>
  /\ queue[Len(queue)] = [text |-> "How can I help you?", audio_id |-> id]

\* C28: process_command with a blank command returns and speaks the greeting
\* and changes nothing else: the analyzer is not invoked, and neither the
\* conversation history nor the memory nor the memory file changes
C28_BlankChangesNothingElse ==
  [][(p_pc = "idle" /\ p_pc' = "returned")
       => /\ Strip(p_command') = ""
          /\ p_result' = PyStr("How can I help you?")
          /\ eleven_client => GreetingQueued(audio_queue', current_audio_id)
          /\ UNCHANGED <<avars, conversation_history, memory, memory_file,
                         analysis, execute_calls>>]_vars

\* a blank command was answered after a command that left history and memory
C28_Witness ==
  /\ p_pc = "returned"
  /\ Strip(p_command) = ""
  /\ eleven_client
  /\ GreetingQueued(audio_queue, current_audio_id - 1)
  /\ conversation_history # <<>>
  /\ memory.interactions # <<>>

\* C24: conversation_history holds at most 10 entries, the last 10 of the
\* entries ever appended in their order, and a non-blank command that
\* completed has appended one user entry with the command and then one
\* assistant entry with the returned response
C24_HistoryIsLastTen ==
  /\ Len(conversation_history) <= 10
  /\ Len(appended) <= 10 => conversation_history = appended
  /\ Len(appended) > 10
       => conversation_history = SubSeq(appended, Len(appended) - 9, Len(appended))
  /\ (p_pc = "returned" /\ Strip(p_command) # "")
       => /\ Len(conversation_history) >= 2
          /\ conversation_history[Len(conversation_history) - 1]
               = [role |-> "user", content |-> PyStr(p_command)]
          /\ conversation_history[Len(conversation_history)]
               = [role |-> "assistant", content |-> p_result]

\* a command completed after more than 10 entries had been appended
C24_Witness ==
  /\ p_pc = "returned"
  /\ Strip(p_command) # ""
  /\ Len(appended) > 10
  /\ appended[1] # appended[3]

\* C29: the interactions kept are at most 100 and the facts kept at most 50,
\* and they are the most recently given ones in the order they were given
C29_MemoryBounded ==
  /\ Len(memory.interactions) <= 100
  /\ Len(memory.facts) <= 50
  /\ \A k \in 1..Len(memory.interactions) :
       memory.interactions[k]
         = added.interactions[Len(added.interactions)
                                - Len(memory.interactions) + k]
  /\ \A k \in 1..Len(memory.facts) :
       memory.facts[k] = added.facts[Len(added.facts) - Len(memory.facts) + k]
  /\ Len(added.interactions) <= 100 => Len(memory.interactions) = Len(added.interactions)
  /\ Len(added.facts) <= 50 => Len(memory.facts) = Len(added.facts)
  /\ Len(added.interactions) > 100 => Len(memory.interactions) = 100
  /\ Len(added.facts) > 50 => Len(memory.facts) = 50

\* a fact and an interaction were stored in a memory that was full
C29_Witness ==
  /\ p_pc = "returned"
  /\ analysis # NoResult
  /\ Stores(analysis)
  /\ Len(added.facts) > 50
  /\ Len(added.interactions) > 100


(***************************************************************************)
(* Properties of VoiceIO                                                   *)
(***************************************************************************)
\* C22: the audio thread skips only chunks of an older speech session, never
\* a chunk of the most recent session, so that every chunk of a speak call
\* is generated and played unless a later call intervenes
C22_SkipsOnlyOlderSessions ==
  skipped # NoItem => skipped.audio_id < skipped.latest

\* C23: wait_for_audio_complete terminates: every item ever put on the queue
\* is accounted as done, so that the call returns once the audio thread has
\* emptied the queue and playback has stopped
C23_WaitTerminates == (waiter = "joining") ~> (waiter \in {"returned", "raised"})


(***************************************************************************)
(* Properties of the file-management handlers                              *)
(***************************************************************************)
\* C25: the file-management handlers only touch paths inside the workspace:
\* every access of a read, delete, copy, open or execute is to a path that
\* validate_path accepts, and a path outside is rejected without an access
C25_OnlyWorkspaceTouched ==
  \A access \in touched :
    ~IsRaised(validate_path([absolute |-> TRUE, parts |-> access.path],
                            WORKSPACE_DIR))


(***************************************************************************)
(* Properties of the routing of _execute_action                            *)
(***************************************************************************)
\* C26: every (intent, action) the rule tier can produce, and every command
\* of the help text, is routed to a branch that performs the operation,
\* never to a "not implemented yet" or "not sure how to handle" reply
C26_RoutedToOperation ==
  (Called("_execute_action") \/ Called("process_command"))
    => probe.last.out.branch = "operation"


(***************************************************************************)
(* Properties of JarvisMemoryManager                                       *)
(***************************************************************************)
\* the entries returned are the last `limit` entries stored, or all of them
\* when fewer are stored
MostRecent(entries, limit, stored) ==
  /\ Len(entries) <= limit
  /\ Len(entries) <= Len(stored)
  /\ Len(stored) <= limit => Len(entries) = Len(stored)
  /\ Len(stored) > limit => Len(entries) = limit
  /\ \A k \in 1..Len(entries) :
       entries[k] = stored[Len(stored) - Len(entries) + k]

\* C30: get_conversation_history(limit) returns at most `limit` entries for
\* every limit >= 0, the most recent ones in order, and the stored list never
\* holds more than MAX_HISTORY_ENTRIES entries
C30_HistoryWithinLimit ==
  /\ Len(conversations) <= MAX_HISTORY_ENTRIES
  /\ history_returned # NoResult
       => MostRecent(history_returned.entries, history_returned.limit,
                     history_returned.stored)


====
